---- MODULE Spec2Model ----
(***************************************************************************)
(* Timeline converter (src/Timeline_Convertor_2.py): the JSON root is      *)
(* loaded, one of three schema parsers fills visits and activities, and    *)
(* the model is encoded as GeoJSON and KML.                                *)
(*                                                                         *)
(* Python values are tagged records, one tag per Python type, so that the  *)
(* type errors of the dynamically typed code are outcomes of the model:    *)
(* an operation applied to a value of the wrong type yields Exc, and Exc   *)
(* propagates through every later operation of the same statement.         *)
(* Strings are sequences of one-character strings.  Numbers are decimals   *)
(* m * 10^-e, kept normalised, so that E7 integers divide exactly.         *)
(***************************************************************************)
EXTENDS Integers, Sequences, FiniteSets, TLC

VARIABLES
    input_file,   \* the content of Timeline.json: Missing, Invalid or JsonFile(root)
    data,         \* self.data
    format_type,  \* self.format_type
    visits,       \* self.visits
    activities,   \* self.activities
    pc,           \* "start", then what load() did: "loaded", "failed", "raised"
    error,        \* the error load() reported when it returned False
    geojson,      \* the last result of to_geojson()
    kml,          \* the last result of to_kml()
    hash_seed,    \* the string hashing of this process, which orders its sets;
                  \* 0 until the process iterates a set of strings
    step,         \* where main() is: "none" when the converter is used without main()
    files         \* the output files in the directory of the script

vars == <<input_file, data, format_type, visits, activities, pc, error, geojson, kml,
          hash_seed, step, files>>

(***************************************************************************)
(* Python values                                                           *)
(***************************************************************************)
None == [t |-> "null"]

Exc == [t |-> "exc"]

PyInt(i) == [t |-> "int", i |-> i]

PyBool(b) == [t |-> "bool", b |-> b]

PyStr(s) == [t |-> "str", s |-> s]

PyList(a) == [t |-> "arr", a |-> a]

PyDict(o) == [t |-> "obj", o |-> o]

EmptyDict == PyDict([k \in {} |-> None])

EmptyStr == PyStr(<<>>)

RECURSIVE Normalise(_, _)
Normalise(m, e) ==
    IF e > 0 /\ m % 10 = 0 THEN Normalise(m \div 10, e - 1) ELSE <<m, e>>

PyFloat(m, e) ==
    LET n == Normalise(m, e) IN [t |-> "flt", m |-> n[1], e |-> n[2]]

PyTuple(lat, lng) == [t |-> "tup", lat |-> lat, lng |-> lng]

IsExc(x) == x.t = "exc"

IsNumber(x) == x.t \in {"int", "flt", "bool"}

\* bool(x): the truth value Python gives x in `if x`, `not x`, `x and y`, `x or y`.
Truthy(x) ==
    CASE x.t = "null" -> FALSE
      [] x.t = "bool" -> x.b
      [] x.t = "int"  -> x.i # 0
      [] x.t = "flt"  -> x.m # 0
      [] x.t = "str"  -> Len(x.s) > 0
      [] x.t = "arr"  -> Len(x.a) > 0
      [] x.t = "obj"  -> DOMAIN x.o # {}
      [] x.t = "tup"  -> TRUE
      [] OTHER        -> FALSE

\* The characters of the dictionary keys the code tests with `in`.
KeyChars(key) ==
    CASE key = "startTime"        -> <<"s","t","a","r","t","T","i","m","e">>
      [] key = "endTime"          -> <<"e","n","d","T","i","m","e">>
      [] key = "visit"            -> <<"v","i","s","i","t">>
      [] key = "activity"         -> <<"a","c","t","i","v","i","t","y">>
      [] key = "placeVisit"       -> <<"p","l","a","c","e","V","i","s","i","t">>
      [] key = "activitySegment"  -> <<"a","c","t","i","v","i","t","y","S","e","g","m","e","n","t">>
      [] key = "timelineObjects"  -> <<"t","i","m","e","l","i","n","e","O","b","j","e","c","t","s">>
      [] key = "semanticSegments" -> <<"s","e","m","a","n","t","i","c","S","e","g","m","e","n","t","s">>
      [] key = "latE7"            -> <<"l","a","t","E","7">>
      [] key = "lngE7"            -> <<"l","n","g","E","7">>

IsSubstring(sub, s) ==
    \E i \in 0..(Len(s) - Len(sub)) : SubSeq(s, i + 1, i + Len(sub)) = sub

\* `key in x`: a key test on a dict, an element test on a list, a substring test
\* on a str, TypeError on every other type.
Contains(key, x) ==
    CASE x.t = "obj" -> PyBool(key \in DOMAIN x.o)
      [] x.t = "arr" -> PyBool(\E i \in 1..Len(x.a) : x.a[i] = PyStr(KeyChars(key)))
      [] x.t = "str" -> PyBool(IsSubstring(KeyChars(key), x.s))
      [] OTHER       -> Exc

\* x.get(key, default): AttributeError unless x is a dict.
Get(x, key, default) ==
    IF x.t = "obj"
    THEN IF key \in DOMAIN x.o THEN x.o[key] ELSE default
    ELSE Exc

\* x[key] with a str key: KeyError or TypeError unless x is a dict holding key.
Index(x, key) ==
    IF x.t = "obj" /\ key \in DOMAIN x.o THEN x.o[key] ELSE Exc

\* x / 1e7: TypeError unless x is a number.
Div1e7(x) ==
    CASE x.t = "int"  -> PyFloat(x.i, 7)
      [] x.t = "flt"  -> PyFloat(x.m, x.e + 7)
      [] x.t = "bool" -> PyFloat(IF x.b THEN 1 ELSE 0, 7)
      [] OTHER        -> Exc

\* x or y, y given as the value it evaluates to (Exc when evaluating it raises).
PyOr(x, y) == IF IsExc(x) THEN Exc ELSE IF Truthy(x) THEN x ELSE y

(***************************************************************************)
(* float(str)                                                              *)
(***************************************************************************)
Digits == {"0", "1", "2", "3", "4", "5", "6", "7", "8", "9"}

DigitVal(c) ==
    CASE c = "0" -> 0 [] c = "1" -> 1 [] c = "2" -> 2 [] c = "3" -> 3 [] c = "4" -> 4
      [] c = "5" -> 5 [] c = "6" -> 6 [] c = "7" -> 7 [] c = "8" -> 8 [] c = "9" -> 9

RECURSIVE DigitsVal(_)
DigitsVal(s) ==
    IF Len(s) = 0 THEN 0
    ELSE DigitsVal(SubSeq(s, 1, Len(s) - 1)) * 10 + DigitVal(s[Len(s)])

RECURSIVE Pow10(_)
Pow10(k) == IF k = 0 THEN 1 ELSE 10 * Pow10(k - 1)

RECURSIVE Strip(_)
Strip(s) ==
    IF Len(s) > 0 /\ s[1] = " " THEN Strip(Tail(s))
    ELSE IF Len(s) > 0 /\ s[Len(s)] = " " THEN Strip(SubSeq(s, 1, Len(s) - 1))
    ELSE s

\* Position of the first "." of s, or 0.
DotPos(s) ==
    IF \E i \in 1..Len(s) : s[i] = "."
    THEN CHOOSE i \in 1..Len(s) : s[i] = "." /\ \A j \in 1..(i - 1) : s[j] # "."
    ELSE 0

\* The float of the literal with sign neg, integer digits ip and fraction digits
\* fp; ValueError (Exc) unless there is a digit and there are only digits.
FloatOfDigits(neg, ip, fp) ==
    IF /\ Len(ip) + Len(fp) > 0
       /\ \A i \in 1..Len(ip) : ip[i] \in Digits
       /\ \A i \in 1..Len(fp) : fp[i] \in Digits
    THEN PyFloat((IF neg THEN 0 - 1 ELSE 1)
                     * (DigitsVal(ip) * Pow10(Len(fp)) + DigitsVal(fp)),
                 Len(fp))
    ELSE Exc

\* The float of the unsigned literal u whose first "." is at position d (0: none).
FloatOfUnsigned(neg, u, d) ==
    FloatOfDigits(neg,
                  IF d = 0 THEN u ELSE SubSeq(u, 1, d - 1),
                  IF d = 0 THEN <<>> ELSE SubSeq(u, d + 1, Len(u)))

\* The float of the unsigned literal u, negated when neg.
FloatOfStripped(neg, u) == FloatOfUnsigned(neg, u, DotPos(u))

\* float(s) for a decimal literal: optional sign, digits with at most one ".",
\* at least one digit; surrounding blanks are ignored.  ValueError (Exc) otherwise.
ToFloat(s) ==
    LET b == Strip(s)
    IN  FloatOfStripped(Len(b) > 0 /\ b[1] = "-",
                        IF Len(b) > 0 /\ b[1] \in {"-", "+"} THEN Tail(b) ELSE b)

(***************************************************************************)
(* Coordinate parsers                                                      *)
(***************************************************************************)
RECURSIVE Split(_)
\* s.split(','): the pieces of s between commas, always at least one piece.
Split(s) ==
    IF \E i \in 1..Len(s) : s[i] = ","
    THEN LET i == CHOOSE k \in 1..Len(s) : s[k] = "," /\ \A j \in 1..(k - 1) : s[j] # ","
         IN  <<SubSeq(s, 1, i - 1)>> \o Split(SubSeq(s, i + 1, Len(s)))
    ELSE <<s>>

GeoPrefix == <<"g", "e", "o", ":">>

ParseGeoOk(lat, lng) == IF IsExc(lat) \/ IsExc(lng) THEN None ELSE PyTuple(lat, lng)

\* parse_geo_string: 'geo:lat,lng' -> (lat, lng), None for everything else.
\* Lines 44-47: the pair of the two parts, None unless there are exactly two.
GeoParts(parts) ==
    IF Len(parts) = 2 THEN ParseGeoOk(ToFloat(parts[1]), ToFloat(parts[2])) ELSE None

parse_geo_string(geo_str) ==
    IF IsExc(geo_str) THEN Exc
    ELSE IF geo_str.t = "str" /\ Len(geo_str.s) >= 4 /\ SubSeq(geo_str.s, 1, 4) = GeoPrefix
    THEN GeoParts(Split(SubSeq(geo_str.s, 5, Len(geo_str.s))))
    ELSE None

\* The degree sign, one character of the input.
Degree == "deg"

RECURSIVE DigitRun(_, _)
\* Number of consecutive digits of s from position p on.
DigitRun(s, p) ==
    IF p <= Len(s) /\ s[p] \in Digits THEN 1 + DigitRun(s, p + 1) ELSE 0

\* The positions right after a match of -?\d+\.?\d* that starts at p.
NumEnds(s, p) ==
    LET p1 == IF p <= Len(s) /\ s[p] = "-" THEN p + 1 ELSE p
        k  == DigitRun(s, p1)
        q  == p1 + k
        j  == DigitRun(s, q + 1)
    IN  IF k = 0 THEN {}
        ELSE {p1 + i : i \in 1..k} \cup
             (IF q <= Len(s) /\ s[q] = "." THEN {q + 1 + i : i \in 0..j} ELSE {})

RECURSIVE SkipBlanks(_, _)
SkipBlanks(s, p) == IF p <= Len(s) /\ s[p] = " " THEN SkipBlanks(s, p + 1) ELSE p

\* The position right after the greedy match of \s*(deg)?,?\s* that starts at q.
SkipSep(s, q) ==
    LET a == SkipBlanks(s, q)
        b == IF a <= Len(s) /\ s[a] = Degree THEN a + 1 ELSE a
        c == IF b <= Len(s) /\ s[b] = "," THEN b + 1 ELSE b
    IN  SkipBlanks(s, c)

SetMax(S) == CHOOSE x \in S : \A y \in S : y <= x

\* The ends of the first group for which the rest of the pattern matches from p.
MatchEnds(s, p) == {q \in NumEnds(s, p) : NumEnds(s, SkipSep(s, q)) # {}}

\* re.search(r'(-?\d+\.?\d*)\s*(deg)?,?\s*(-?\d+\.?\d*)', s): the two groups of
\* the leftmost match, each group as long as backtracking allows; <<>> if none.
\* The groups of the match whose first group is s[p..q-1] and whose second
\* group starts at r.
LatLngGroups(s, p, q, r) == <<SubSeq(s, p, q - 1), SubSeq(s, r, SetMax(NumEnds(s, r)) - 1)>>

\* The groups of the match whose first group is s[p..q-1].
LatLngSecond(s, p, q) == LatLngGroups(s, p, q, SkipSep(s, q))

\* The groups of the match that starts at p.
LatLngFirst(s, p) == LatLngSecond(s, p, SetMax(MatchEnds(s, p)))

LatLngSearch(s) ==
    IF \E p \in 1..Len(s) : MatchEnds(s, p) # {}
    THEN LatLngFirst(s, CHOOSE x \in 1..Len(s) :
                            MatchEnds(s, x) # {} /\ \A y \in 1..(x - 1) : MatchEnds(s, y) = {})
    ELSE <<>>

\* Lines 58-62: the pair of the two groups of the match g, None without a match.
LatLngOf(g) ==
    IF g = <<>> THEN None ELSE ParseGeoOk(ToFloat(g[1]), ToFloat(g[2]))

\* parse_latlng_string: '12.345deg, 67.890deg' -> (lat, lng); None when the
\* argument is falsy or holds no two numbers; TypeError when it is truthy and no str.
parse_latlng_string(latlng_str) ==
    IF IsExc(latlng_str) THEN Exc
    ELSE IF ~Truthy(latlng_str) THEN None
    ELSE IF latlng_str.t # "str" THEN Exc
    ELSE LatLngOf(LatLngSearch(latlng_str.s))

(***************************************************************************)
(* String literals of the code                                             *)
(***************************************************************************)
UnknownLocation ==
    PyStr(<<"U","n","k","n","o","w","n"," ","L","o","c","a","t","i","o","n">>)

UNKNOWN == PyStr(<<"U","N","K","N","O","W","N">>)

Home == PyStr(<<"H","o","m","e">>)

Work == PyStr(<<"W","o","r","k">>)

TYPE_HOME == PyStr(<<"T","Y","P","E","_","H","O","M","E">>)

TYPE_WORK == PyStr(<<"T","Y","P","E","_","W","O","R","K">>)

(***************************************************************************)
(* What the body of a parser loop does with one record: it raises (exc),   *)
(* or appends the visits v and the activities a (at most one entity).      *)
(***************************************************************************)
Skip == [exc |-> FALSE, v |-> <<>>, a |-> <<>>]

Raised == [exc |-> TRUE, v |-> <<>>, a |-> <<>>]

AddVisit(d) == [exc |-> FALSE, v |-> <<d>>, a |-> <<>>]

AddActivity(d) == [exc |-> FALSE, v |-> <<>>, a |-> <<d>>]

AnyExc(q) == \E i \in 1..Len(q) : IsExc(q[i])

\* self.visits.append({...}): the dict literal is evaluated first, so a raise
\* in one of its values appends nothing.
AppendVisit(name, lat, lng, start_time, end_time, place_id, semantic_type) ==
    IF AnyExc(<<name, lat, lng, start_time, end_time, place_id, semantic_type>>)
    THEN Raised
    ELSE AddVisit([name |-> name, lat |-> lat, lng |-> lng,
                   start_time |-> start_time, end_time |-> end_time,
                   place_id |-> place_id, semantic_type |-> semantic_type])

\* self.activities.append({...}); path is a non-empty sequence of (lat, lng).
AppendActivity(type, start_time, end_time, distance, path) ==
    IF AnyExc(<<type, start_time, end_time, distance>>)
    THEN Raised
    ELSE AddActivity([type |-> type, start_time |-> start_time,
                      end_time |-> end_time, distance |-> distance, path |-> path])

\* The name of a visit of the standard and semantic schemas.
VisitName(name, semantic) ==
    IF semantic = TYPE_HOME \/ semantic = Home THEN Home
    ELSE IF semantic = TYPE_WORK \/ semantic = Work THEN Work
    ELSE name

(***************************************************************************)
(* _parse_ios_format                                                       *)
(***************************************************************************)
\* Lines 181-190: the visit of item, given its candidate and parsed coords.
IosVisitAt(item, candidate, coords) ==
    IF IsExc(coords) THEN Raised
    ELSE IF Truthy(coords)
    THEN AppendVisit(Get(candidate, "name", UnknownLocation),
                     coords.lat, coords.lng,
                     Index(item, "startTime"), Index(item, "endTime"),
                     Get(candidate, "placeID", None),
                     Get(candidate, "semanticType", None))
    ELSE Skip

IosVisit(item) ==
    LET visit     == Index(item, "visit")
        candidate == Get(visit, "topCandidate", EmptyDict)
    IN  IosVisitAt(item, candidate,
                   parse_geo_string(Get(candidate, "placeLocation", EmptyStr)))

\* Lines 198-202: the start, then the end unless it equals the start.
IosPath(start_coords, end_coords) ==
    LET p1 == IF Truthy(start_coords) THEN <<start_coords>> ELSE <<>>
    IN  IF Truthy(end_coords) /\ end_coords # start_coords
        THEN Append(p1, end_coords) ELSE p1

\* Lines 198-211: the activity of item, given its parsed start and end.
IosActivityAt(item, activity, start_coords, end_coords) ==
    IF IsExc(start_coords) \/ IsExc(end_coords) THEN Raised
    ELSE IF IosPath(start_coords, end_coords) # <<>>
    THEN AppendActivity(Get(Get(activity, "topCandidate", EmptyDict), "type", UNKNOWN),
                        Index(item, "startTime"), Index(item, "endTime"),
                        Get(activity, "distanceMeters", PyInt(0)),
                        IosPath(start_coords, end_coords))
    ELSE Skip

IosActivity(item) ==
    LET activity == Index(item, "activity")
    IN  IosActivityAt(item, activity,
                      parse_geo_string(Get(activity, "start", EmptyStr)),
                      parse_geo_string(Get(activity, "end", EmptyStr)))

\* The loop body of _parse_ios_format for one item.
IosItem(item) ==
    IF ~Truthy(item) THEN Skip
    ELSE IF IsExc(Contains("startTime", item)) THEN Raised
    ELSE IF ~Contains("startTime", item).b \/ ~Contains("endTime", item).b THEN Skip
    ELSE IF Contains("visit", item).b THEN IosVisit(item)
    ELSE IF Contains("activity", item).b THEN IosActivity(item)
    ELSE Skip

(***************************************************************************)
(* _parse_standard_format                                                  *)
(***************************************************************************)
\* loc.get('latitudeE7', 0) / 1e7 and loc.get('longitudeE7', 0) / 1e7
E7Lat(loc) == Div1e7(Get(loc, "latitudeE7", PyInt(0)))

E7Lng(loc) == Div1e7(Get(loc, "longitudeE7", PyInt(0)))

StdVisit(item) ==
    LET pv       == Index(item, "placeVisit")
        loc      == Get(pv, "location", EmptyDict)
        duration == Get(pv, "duration", EmptyDict)
        lat      == E7Lat(loc)
        lng      == E7Lng(loc)
        semantic == Get(loc, "semanticType", EmptyStr)
    IN  IF IsExc(lat) \/ IsExc(lng) THEN Raised
        ELSE IF Truthy(lat) /\ Truthy(lng)
        THEN AppendVisit(VisitName(Get(loc, "name", UnknownLocation), semantic),
                         lat, lng,
                         Get(duration, "startTimestamp", None),
                         Get(duration, "endTimestamp", None),
                         Get(loc, "placeId", None),
                         semantic)
        ELSE Skip

\* The three path sources tried in the opposite order.
StdPathData_TimelineFirst(seg) ==
    PyOr(Get(Get(seg, "timelinePath", EmptyDict), "points", None),
         PyOr(Get(Get(seg, "simplifiedRawPath", EmptyDict), "points", None),
              PyOr(Get(Get(seg, "waypointPath", EmptyDict), "waypoints", None),
                   PyList(<<>>))))

\* The first truthy one of the three path sources, [] when there is none.
StdPathData(seg) ==
    PyOr(Get(Get(seg, "waypointPath", EmptyDict), "waypoints", None),
         PyOr(Get(Get(seg, "simplifiedRawPath", EmptyDict), "points", None),
              PyOr(Get(Get(seg, "timelinePath", EmptyDict), "points", None),
                   PyList(<<>>))))

StdPointLat(pt) ==
    IF IsExc(Contains("latE7", pt)) THEN Exc
    ELSE IF Contains("latE7", pt).b THEN Div1e7(Get(pt, "latE7", PyInt(0)))
    ELSE Get(pt, "lat", PyInt(0))

StdPointLng(pt) ==
    IF IsExc(Contains("lngE7", pt)) THEN Exc
    ELSE IF Contains("lngE7", pt).b THEN Div1e7(Get(pt, "lngE7", PyInt(0)))
    ELSE Get(pt, "lng", PyInt(0))

\* Lines 256-257: the point (lat, lng) is kept, before the points rest read
\* after it, when lat and lng are truthy.
StdAppendPoint(lat, lng, rest) ==
    IF IsExc(lat) \/ IsExc(lng) \/ IsExc(rest) THEN Exc
    ELSE IF Truthy(lat) /\ Truthy(lng)
    THEN PyList(<<PyTuple(lat, lng)>> \o rest.a)
    ELSE rest

RECURSIVE StdPoints(_, _)
\* for pt in path_data: the points with truthy lat and lng, from point i on;
\* Exc when a point raises.
StdPoints(pts, i) ==
    IF i > Len(pts) THEN PyList(<<>>)
    ELSE StdAppendPoint(StdPointLat(pts[i]), StdPointLng(pts[i]), StdPoints(pts, i + 1))

\* Iterating a truthy path_data that is no list ends in an exception: a dict or
\* a str yields str items, whose .get raises, and a number is not iterable.
StdPrimaryPath(seg) ==
    LET path_data == StdPathData(seg)
    IN  IF IsExc(path_data) THEN Exc
        ELSE IF path_data.t = "arr" THEN StdPoints(path_data.a, 1)
        ELSE Exc

\* Lines 260-272: the start/end fallback when fewer than 2 points were read.
StdFallbackAt(primary, start_lat, start_lng, end_lat, end_lng) ==
    LET p1 == IF Truthy(start_lat) /\ Truthy(start_lng)
              THEN <<PyTuple(start_lat, start_lng)>> ELSE primary
    IN  IF AnyExc(<<start_lat, start_lng, end_lat, end_lng>>) THEN Exc
        ELSE IF Truthy(end_lat) /\ Truthy(end_lng)
        THEN PyList(Append(p1, PyTuple(end_lat, end_lng)))
        ELSE PyList(p1)

\* Lines 261-266: the four coordinates of startLocation and endLocation.
StdFallback(seg, primary) ==
    StdFallbackAt(primary,
                  E7Lat(Get(seg, "startLocation", EmptyDict)),
                  E7Lng(Get(seg, "startLocation", EmptyDict)),
                  E7Lat(Get(seg, "endLocation", EmptyDict)),
                  E7Lng(Get(seg, "endLocation", EmptyDict)))

\* Line 260: the points read, or the fallback when they are fewer than 2.
StdPathOf(seg, primary) ==
    IF IsExc(primary) THEN Exc
    ELSE IF Len(primary.a) < 2 THEN StdFallback(seg, primary.a)
    ELSE primary

StdPath(seg) == StdPathOf(seg, StdPrimaryPath(seg))

\* seg.get('activities', [{}])[0].get('activityType') if seg.get('activities') else None
StdFirstActivityType(seg) ==
    LET acts == Get(seg, "activities", None)
    IN  IF ~Truthy(acts) THEN None
        ELSE IF acts.t = "arr" THEN Get(acts.a[1], "activityType", None)
        ELSE Exc

\* The type taken from the activities list before activityType.
StdActivityType_ListFirst(seg) ==
    PyOr(StdFirstActivityType(seg), PyOr(Get(seg, "activityType", None), UNKNOWN))

StdActivityType(seg) ==
    PyOr(Get(seg, "activityType", None), PyOr(StdFirstActivityType(seg), UNKNOWN))

\* Lines 274-285: the activity of the segment seg, given its path.
StdActivityAt(seg, duration, path) ==
    IF IsExc(duration) \/ IsExc(path) THEN Raised
    ELSE IF path.a # <<>>
    THEN AppendActivity(StdActivityType(seg),
                        Get(duration, "startTimestamp", None),
                        Get(duration, "endTimestamp", None),
                        Get(seg, "distance", PyInt(0)),
                        path.a)
    ELSE Skip

StdActivity(item) ==
    LET seg == Index(item, "activitySegment")
    IN  StdActivityAt(seg, Get(seg, "duration", EmptyDict), StdPath(seg))

\* The loop body of _parse_standard_format for one item.
StdItem(item) ==
    IF IsExc(Contains("placeVisit", item)) THEN Raised
    ELSE IF Contains("placeVisit", item).b THEN StdVisit(item)
    ELSE IF Contains("activitySegment", item).b THEN StdActivity(item)
    ELSE Skip

(***************************************************************************)
(* _parse_semantic_format                                                  *)
(***************************************************************************)
\* Lines 299-315: the visit of segment, given its candidate and parsed coords.
SemVisitAt(segment, candidate, coords) ==
    IF IsExc(coords) THEN Raised
    ELSE IF Truthy(coords)
    THEN AppendVisit(VisitName(Get(candidate, "name", UnknownLocation),
                               Get(candidate, "semanticType", EmptyStr)),
                     coords.lat, coords.lng,
                     Get(segment, "startTime", None),
                     Get(segment, "endTime", None),
                     Get(candidate, "placeId", None),
                     Get(candidate, "semanticType", EmptyStr))
    ELSE Skip

SemVisit(segment) ==
    LET visit     == Index(segment, "visit")
        candidate == Get(visit, "topCandidate", EmptyDict)
        place_loc == Get(candidate, "placeLocation", EmptyDict)
    IN  SemVisitAt(segment, candidate,
                   parse_latlng_string(Get(place_loc, "latLng", EmptyStr)))

\* SemAppendPoint with the point put after the points read after it.
SemAppendPoint_Reversed(coords, rest) ==
    IF IsExc(coords) \/ IsExc(rest) THEN Exc
    ELSE IF Truthy(coords) THEN PyList(rest.a \o <<coords>>)
    ELSE rest

\* Lines 328-330: the parsed point coords is kept, before the points rest read
\* after it, when it is truthy.
SemAppendPoint(coords, rest) ==
    IF IsExc(coords) \/ IsExc(rest) THEN Exc
    ELSE IF Truthy(coords) THEN PyList(<<coords>> \o rest.a)
    ELSE rest

RECURSIVE SemPoints(_, _)
\* for pt in segment.get('timelinePath', []): the parsed points, from point i on.
SemPoints(pts, i) ==
    IF i > Len(pts) THEN PyList(<<>>)
    ELSE SemAppendPoint(parse_latlng_string(Get(pts[i], "point", EmptyStr)),
                        SemPoints(pts, i + 1))

\* Iterating a timelinePath that is no list: an empty dict or str gives no
\* point, a non-empty one gives str items, whose .get raises; None and numbers
\* are not iterable.
SemPrimaryPath(segment) ==
    LET tp == Get(segment, "timelinePath", PyList(<<>>))
    IN  IF tp.t = "arr" THEN SemPoints(tp.a, 1)
        ELSE IF tp.t \in {"obj", "str"} /\ ~Truthy(tp) THEN PyList(<<>>)
        ELSE Exc

\* Lines 333-337: the start/end fallback when fewer than 2 points were read.
SemFallback(start_coords, end_coords, primary) ==
    LET p1 == IF Truthy(start_coords) THEN <<start_coords>> ELSE primary
    IN  IF Truthy(end_coords) THEN Append(p1, end_coords) ELSE p1

\* Line 333: the points read, or the fallback when they are fewer than 2.
SemPath(start_coords, end_coords, primary) ==
    IF Len(primary.a) < 2
    THEN SemFallback(start_coords, end_coords, primary.a)
    ELSE primary.a

\* Lines 327-346: the activity of segment, given its parsed start and end and
\* the points read from its timelinePath.
SemActivityAt(segment, activity, start_coords, end_coords, primary) ==
    IF IsExc(start_coords) \/ IsExc(end_coords) \/ IsExc(primary) THEN Raised
    ELSE IF SemPath(start_coords, end_coords, primary) # <<>>
    THEN AppendActivity(Get(Get(activity, "topCandidate", EmptyDict), "type", UNKNOWN),
                        Get(segment, "startTime", None),
                        Get(segment, "endTime", None),
                        Get(activity, "distanceMeters", PyInt(0)),
                        SemPath(start_coords, end_coords, primary))
    ELSE Skip

SemActivity(segment) ==
    LET activity == Index(segment, "activity")
    IN  SemActivityAt(segment, activity,
            parse_latlng_string(Get(Get(activity, "start", EmptyDict), "latLng", EmptyStr)),
            parse_latlng_string(Get(Get(activity, "end", EmptyDict), "latLng", EmptyStr)),
            SemPrimaryPath(segment))

\* The loop body of _parse_semantic_format for one segment.
SemItem(segment) ==
    IF IsExc(Get(segment, "startTime", None)) THEN Raised
    ELSE IF Contains("visit", segment).b THEN SemVisit(segment)
    ELSE IF Contains("activity", segment).b THEN SemActivity(segment)
    ELSE Skip

(***************************************************************************)
(* load                                                                    *)
(***************************************************************************)
Missing == [t |-> "missing"]

Invalid == [t |-> "invalid"]

JsonFile(root) == [t |-> "json", root |-> root]

\* Iterating x in a for statement: the items of a list, the characters of a
\* str, nothing for an empty dict; TypeError for None and numbers.
Iterate(x) ==
    CASE x.t = "arr" -> x
      [] x.t = "str" -> PyList([i \in 1..Len(x.s) |-> PyStr(<<x.s[i]>>)])
      [] x.t = "obj" /\ DOMAIN x.o = {} -> PyList(<<>>)
      [] x.t \in {"null", "int", "flt", "bool", "exc"} -> Exc

\* What two branches of a loop body do with one record, one after the other.
BothBranches(v, a) == [exc |-> v.exc \/ a.exc, v |-> v.v, a |-> a.a]

\* The loop bodies with 'if' in the place of 'elif': a record with the visit
\* key and the activity key is handled by both branches.
ParseItem_BothBranches(fmt, item) ==
    CASE fmt = "ios" ->
             IF item.t = "obj" /\ {"startTime", "endTime", "visit", "activity"} \subseteq DOMAIN item.o
             THEN BothBranches(IosVisit(item), IosActivity(item)) ELSE IosItem(item)
      [] fmt = "standard" ->
             IF item.t = "obj" /\ {"placeVisit", "activitySegment"} \subseteq DOMAIN item.o
             THEN BothBranches(StdVisit(item), StdActivity(item)) ELSE StdItem(item)
      [] fmt = "semantic" ->
             IF item.t = "obj" /\ {"visit", "activity"} \subseteq DOMAIN item.o
             THEN BothBranches(SemVisit(item), SemActivity(item)) ELSE SemItem(item)

\* One item handled by the parser of the schema fmt.
ParseItem(fmt, item) ==
    CASE fmt = "ios"      -> IosItem(item)
      [] fmt = "standard" -> StdItem(item)
      [] fmt = "semantic" -> SemItem(item)

RECURSIVE ParseLoop(_, _, _, _, _)
\* The loop after its body did r with item i: it stops when the body raised.
ParseStep(fmt, items, i, v, a, r) ==
    IF r.exc THEN [exc |-> TRUE, v |-> v, a |-> a]
    ELSE ParseLoop(fmt, items, i + 1, v \o r.v, a \o r.a)

\* The for loop of a parser from item i on, v and a being self.visits and
\* self.activities so far: the loop stops at the first item that raises and
\* keeps what was appended before it.
ParseLoop(fmt, items, i, v, a) ==
    IF i > Len(items) THEN [exc |-> FALSE, v |-> v, a |-> a]
    ELSE ParseStep(fmt, items, i, v, a, ParseItem(fmt, items[i]))

\* The list a parser iterates: self.data itself, or self.data.get(key, []).
RecordList(fmt, root) ==
    CASE fmt = "ios"      -> Iterate(root)
      [] fmt = "standard" -> Iterate(Get(root, "timelineObjects", PyList(<<>>)))
      [] fmt = "semantic" -> Iterate(Get(root, "semanticSegments", PyList(<<>>)))

\* _parse_ios_format, _parse_standard_format, _parse_semantic_format
Parse(fmt, root, v, a) ==
    LET items == RecordList(fmt, root)
    IN  IF IsExc(items) THEN [exc |-> TRUE, v |-> v, a |-> a]
        ELSE ParseLoop(fmt, items.a, 1, v, a)

\* DetectFormat with the two key tests in the other order.
DetectFormat_SemanticFirst(root) ==
    IF root.t = "arr" THEN "ios"
    ELSE IF IsExc(Contains("semanticSegments", root)) THEN "raise"
    ELSE IF Contains("semanticSegments", root).b THEN "semantic"
    ELSE IF Contains("timelineObjects", root).b THEN "standard"
    ELSE "none"

\* Lines 153-164: the schema load() selects; "none" for an unrecognized root,
\* "raise" when a membership test raises.
DetectFormat(root) ==
    IF root.t = "arr" THEN "ios"
    ELSE IF IsExc(Contains("timelineObjects", root)) THEN "raise"
    ELSE IF Contains("timelineObjects", root).b THEN "standard"
    ELSE IF Contains("semanticSegments", root).b THEN "semantic"
    ELSE "none"

\* Lines 153-168: what load() does once the schema fmt is selected, r being
\* the outcome of the parser of that schema.
Loaded(fmt, r) ==
    IF fmt = "raise"
    THEN /\ pc' = "raised"
         /\ UNCHANGED <<format_type, visits, activities, error>>
    ELSE IF fmt = "none"
    THEN /\ pc' = "failed"
         /\ error' = "unrecognized"
         /\ UNCHANGED <<format_type, visits, activities>>
    ELSE /\ format_type' = fmt
         /\ visits' = r.v
         /\ activities' = r.a
         /\ pc' = IF r.exc THEN "raised" ELSE "loaded"
         /\ UNCHANGED error

\* Lines 153-164 for the root of the file, fmt being the schema selected.
LoadRoot(root, fmt) ==
    /\ data' = root
    /\ Loaded(fmt, IF fmt \in {"raise", "none"} THEN Skip
                   ELSE Parse(fmt, root, visits, activities))

Load ==
    /\ pc = "start"
    /\ UNCHANGED <<input_file, geojson, kml, hash_seed, step, files>>
    /\ IF input_file.t = "missing"
       THEN /\ pc' = "failed"
            /\ error' = "not_found"
            /\ UNCHANGED <<data, format_type, visits, activities>>
       ELSE IF input_file.t = "invalid"
       THEN /\ pc' = "failed"
            /\ error' = "invalid_json"
            /\ UNCHANGED <<data, format_type, visits, activities>>
       ELSE LoadRoot(input_file.root, DetectFormat(input_file.root))

(***************************************************************************)
(* Activity vocabulary: get_activity_color, format_activity_type           *)
(***************************************************************************)
LowerCase == <<"a", "b", "c", "d", "e", "f", "g", "h", "i", "j", "k", "l", "m", "n", "o", "p", "q", "r", "s", "t", "u", "v", "w", "x", "y", "z">>

UpperCase == <<"A", "B", "C", "D", "E", "F", "G", "H", "I", "J", "K", "L", "M", "N", "O", "P", "Q", "R", "S", "T", "U", "V", "W", "X", "Y", "Z">>

LetterIndex(alphabet, ch) ==
    IF \E i \in 1..26 : alphabet[i] = ch
    THEN CHOOSE i \in 1..26 : alphabet[i] = ch
    ELSE 0

IsLower(ch) == LetterIndex(LowerCase, ch) # 0

IsUpper(ch) == LetterIndex(UpperCase, ch) # 0

ToUpper(ch) == IF IsLower(ch) THEN UpperCase[LetterIndex(LowerCase, ch)] ELSE ch

ToLower(ch) == IF IsUpper(ch) THEN LowerCase[LetterIndex(UpperCase, ch)] ELSE ch

\* str.upper()
Upper(s) == [i \in 1..Len(s) |-> ToUpper(s[i])]

\* str.replace('_', ' ')
ReplaceUnderscores(s) == [i \in 1..Len(s) |-> IF s[i] = "_" THEN " " ELSE s[i]]

\* str.title(): a letter is upper-cased after a character that is no letter (and
\* at the start), lower-cased after a letter.
Title(s) ==
    [i \in 1..Len(s) |->
        IF i > 1 /\ (IsLower(s[i - 1]) \/ IsUpper(s[i - 1]))
        THEN ToLower(s[i]) ELSE ToUpper(s[i])]

\* The pairs of a table, token first.
colors ==
    << <<<<"D", "R", "I", "V", "I", "N", "G">>,
         <<"#", "4", "2", "8", "5", "F", "4">>>>,
       <<<<"I", "N", "_", "V", "E", "H", "I", "C", "L", "E">>,
         <<"#", "4", "2", "8", "5", "F", "4">>>>,
       <<<<"I", "N", "_", "P", "A", "S", "S", "E", "N", "G", "E", "R", "_", "V", "E", "H", "I", "C", "L", "E">>,
         <<"#", "4", "2", "8", "5", "F", "4">>>>,
       <<<<"D", "R", "I", "V", "E">>,
         <<"#", "4", "2", "8", "5", "F", "4">>>>,
       <<<<"I", "N", "_", "T", "A", "X", "I">>,
         <<"#", "F", "F", "E", "B", "3", "B">>>>,
       <<<<"M", "O", "T", "O", "R", "C", "Y", "C", "L", "I", "N", "G">>,
         <<"#", "1", "E", "9", "0", "F", "F">>>>,
       <<<<"C", "Y", "C", "L", "I", "N", "G">>,
         <<"#", "0", "F", "9", "D", "5", "8">>>>,
       <<<<"O", "N", "_", "B", "I", "C", "Y", "C", "L", "E">>,
         <<"#", "0", "F", "9", "D", "5", "8">>>>,
       <<<<"B", "I", "C", "Y", "C", "L", "E">>,
         <<"#", "0", "F", "9", "D", "5", "8">>>>,
       <<<<"W", "A", "L", "K", "I", "N", "G">>,
         <<"#", "D", "B", "4", "4", "3", "7">>>>,
       <<<<"O", "N", "_", "F", "O", "O", "T">>,
         <<"#", "D", "B", "4", "4", "3", "7">>>>,
       <<<<"W", "A", "L", "K">>,
         <<"#", "D", "B", "4", "4", "3", "7">>>>,
       <<<<"R", "U", "N", "N", "I", "N", "G">>,
         <<"#", "D", "B", "4", "4", "3", "7">>>>,
       <<<<"H", "I", "K", "I", "N", "G">>,
         <<"#", "0", "F", "9", "D", "5", "8">>>>,
       <<<<"I", "N", "_", "B", "U", "S">>,
         <<"#", "9", "C", "2", "7", "B", "0">>>>,
       <<<<"I", "N", "_", "S", "U", "B", "W", "A", "Y">>,
         <<"#", "6", "7", "3", "A", "B", "7">>>>,
       <<<<"I", "N", "_", "T", "R", "A", "I", "N">>,
         <<"#", "6", "7", "3", "A", "B", "7">>>>,
       <<<<"I", "N", "_", "T", "R", "A", "M">>,
         <<"#", "6", "7", "3", "A", "B", "7">>>>,
       <<<<"I", "N", "_", "F", "E", "R", "R", "Y">>,
         <<"#", "6", "7", "3", "A", "B", "7">>>>,
       <<<<"F", "L", "Y", "I", "N", "G">>,
         <<"#", "0", "3", "A", "9", "F", "4">>>>,
       <<<<"B", "O", "A", "T", "I", "N", "G">>,
         <<"#", "0", "0", "B", "C", "D", "4">>>>,
       <<<<"S", "W", "I", "M", "M", "I", "N", "G">>,
         <<"#", "0", "0", "B", "C", "D", "4">>>>,
       <<<<"U", "N", "K", "N", "O", "W", "N">>,
         <<"#", "9", "E", "9", "E", "9", "E">>>> >>

mappings ==
    << <<<<"I", "N", "_", "V", "E", "H", "I", "C", "L", "E">>,
         <<"D", "r", "i", "v", "i", "n", "g">>>>,
       <<<<"I", "N", "_", "P", "A", "S", "S", "E", "N", "G", "E", "R", "_", "V", "E", "H", "I", "C", "L", "E">>,
         <<"I", "n", " ", "V", "e", "h", "i", "c", "l", "e">>>>,
       <<<<"D", "R", "I", "V", "E">>,
         <<"D", "r", "i", "v", "i", "n", "g">>>>,
       <<<<"I", "N", "_", "T", "A", "X", "I">>,
         <<"T", "a", "x", "i">>>>,
       <<<<"M", "O", "T", "O", "R", "C", "Y", "C", "L", "I", "N", "G">>,
         <<"M", "o", "t", "o", "r", "c", "y", "c", "l", "i", "n", "g">>>>,
       <<<<"O", "N", "_", "B", "I", "C", "Y", "C", "L", "E">>,
         <<"C", "y", "c", "l", "i", "n", "g">>>>,
       <<<<"C", "Y", "C", "L", "I", "N", "G">>,
         <<"C", "y", "c", "l", "i", "n", "g">>>>,
       <<<<"B", "I", "C", "Y", "C", "L", "E">>,
         <<"C", "y", "c", "l", "i", "n", "g">>>>,
       <<<<"O", "N", "_", "F", "O", "O", "T">>,
         <<"W", "a", "l", "k", "i", "n", "g">>>>,
       <<<<"W", "A", "L", "K", "I", "N", "G">>,
         <<"W", "a", "l", "k", "i", "n", "g">>>>,
       <<<<"W", "A", "L", "K">>,
         <<"W", "a", "l", "k", "i", "n", "g">>>>,
       <<<<"R", "U", "N", "N", "I", "N", "G">>,
         <<"R", "u", "n", "n", "i", "n", "g">>>>,
       <<<<"H", "I", "K", "I", "N", "G">>,
         <<"H", "i", "k", "i", "n", "g">>>>,
       <<<<"I", "N", "_", "B", "U", "S">>,
         <<"B", "u", "s">>>>,
       <<<<"I", "N", "_", "S", "U", "B", "W", "A", "Y">>,
         <<"S", "u", "b", "w", "a", "y">>>>,
       <<<<"I", "N", "_", "T", "R", "A", "I", "N">>,
         <<"T", "r", "a", "i", "n">>>>,
       <<<<"I", "N", "_", "T", "R", "A", "M">>,
         <<"T", "r", "a", "m">>>>,
       <<<<"I", "N", "_", "F", "E", "R", "R", "Y">>,
         <<"F", "e", "r", "r", "y">>>>,
       <<<<"S", "T", "I", "L", "L">>,
         <<"S", "t", "a", "t", "i", "o", "n", "a", "r", "y">>>>,
       <<<<"F", "L", "Y", "I", "N", "G">>,
         <<"F", "l", "y", "i", "n", "g">>>>,
       <<<<"B", "O", "A", "T", "I", "N", "G">>,
         <<"B", "o", "a", "t", "i", "n", "g">>>>,
       <<<<"S", "W", "I", "M", "M", "I", "N", "G">>,
         <<"S", "w", "i", "m", "m", "i", "n", "g">>>> >>

DefaultColor == <<"#", "9", "E", "9", "E", "9", "E">>

HasKey(table, key) == \E i \in 1..Len(table) : table[i][1] = key

Lookup(table, key) == table[CHOOSE i \in 1..Len(table) : table[i][1] = key][2]

\* table.get(key, default)
LookupOr(table, key, default) ==
    IF HasKey(table, key) THEN Lookup(table, key) ELSE default

\* get_activity_color looking the raw token up, without .upper().
get_activity_color_Raw(activity_type) ==
    IF activity_type.t # "str" THEN Exc
    ELSE PyStr(LookupOr(colors, activity_type.s, DefaultColor))

\* get_activity_color: AttributeError when the type is no str.
get_activity_color(activity_type) ==
    IF activity_type.t # "str" THEN Exc
    ELSE PyStr(LookupOr(colors, Upper(activity_type.s), DefaultColor))

\* format_activity_type: AttributeError when the type is no str.
format_activity_type(activity_type) ==
    IF activity_type.t # "str" THEN Exc
    ELSE PyStr(LookupOr(mappings, Upper(activity_type.s),
                        Title(ReplaceUnderscores(activity_type.s))))

(***************************************************************************)
(* Derived temporal fields: _extract_date, _extract_year, _extract_month,  *)
(* _extract_day, _extract_weekday                                          *)
(***************************************************************************)
RECURSIVE ReplaceZ(_)
\* timestamp.replace('Z', '+00:00')
ReplaceZ(s) ==
    IF Len(s) = 0 THEN <<>>
    ELSE (IF s[1] = "Z" THEN <<"+", "0", "0", ":", "0", "0">> ELSE <<s[1]>>)
         \o ReplaceZ(Tail(s))

AllDigits(s) == \A i \in 1..Len(s) : s[i] \in Digits

IsLeap(y) == (y % 4 = 0 /\ y % 100 # 0) \/ y % 400 = 0

DaysInMonth(y, m) ==
    IF m = 2 THEN (IF IsLeap(y) THEN 29 ELSE 28)
    ELSE IF m \in {4, 6, 9, 11} THEN 30 ELSE 31

\* Two digits at positions p, p + 1 of s that give a number below limit.
TwoDigits(s, p, limit) ==
    /\ Len(s) >= p + 1
    /\ s[p] \in Digits /\ s[p + 1] \in Digits
    /\ DigitsVal(SubSeq(s, p, p + 1)) < limit

\* HH, HH:MM, HH:MM:SS or HH:MM:SS.f..., the whole of s.
IsClock(s) ==
    /\ TwoDigits(s, 1, 24)
    /\ \/ Len(s) = 2
       \/ /\ Len(s) >= 5 /\ s[3] = ":" /\ TwoDigits(s, 4, 60)
          /\ \/ Len(s) = 5
             \/ /\ Len(s) >= 8 /\ s[6] = ":" /\ TwoDigits(s, 7, 60)
                /\ \/ Len(s) = 8
                   \/ /\ Len(s) >= 10 /\ s[9] \in {".", ","}
                      /\ AllDigits(SubSeq(s, 10, Len(s)))

\* HH:MM, the whole of s: a UTC offset without its sign.
IsOffset(s) == Len(s) = 5 /\ TwoDigits(s, 1, 24) /\ s[3] = ":" /\ TwoDigits(s, 4, 60)

\* The time part of an ISO string: a clock, then possibly a signed offset.
IsIsoTime(s) ==
    \/ IsClock(s)
    \/ \E i \in 1..Len(s) :
          /\ s[i] \in {"+", "-"}
          /\ IsClock(SubSeq(s, 1, i - 1))
          /\ IsOffset(SubSeq(s, i + 1, Len(s)))

\* YYYY-MM-DD of an existing day, the first ten characters of s.
IsIsoDate(s) ==
    /\ Len(s) >= 10
    /\ AllDigits(SubSeq(s, 1, 4)) /\ s[5] = "-"
    /\ AllDigits(SubSeq(s, 6, 7)) /\ s[8] = "-"
    /\ AllDigits(SubSeq(s, 9, 10))
    /\ DigitsVal(SubSeq(s, 1, 4)) >= 1
    /\ DigitsVal(SubSeq(s, 6, 7)) \in 1..12
    /\ DigitsVal(SubSeq(s, 9, 10)) \in
           1..DaysInMonth(DigitsVal(SubSeq(s, 1, 4)), DigitsVal(SubSeq(s, 6, 7)))

\* datetime.fromisoformat(s) for the extended format YYYY-MM-DD, alone or with
\* one separator character and a time: <<year, month, day>>, <<>> on ValueError.
FromIsoFormat(s) ==
    IF IsIsoDate(s) /\ (Len(s) = 10 \/ (Len(s) >= 13 /\ IsIsoTime(SubSeq(s, 12, Len(s)))))
    THEN <<DigitsVal(SubSeq(s, 1, 4)), DigitsVal(SubSeq(s, 6, 7)), DigitsVal(SubSeq(s, 9, 10))>>
    ELSE <<>>

\* The parsed date of a timestamp; <<>> when the try block raises (a timestamp
\* that is no str has no replace(), a str may not parse).
ParsedDate(timestamp) ==
    IF timestamp.t = "str" THEN FromIsoFormat(ReplaceZ(timestamp.s)) ELSE <<>>

DigitChars == <<"0", "1", "2", "3", "4", "5", "6", "7", "8", "9">>

RECURSIVE Padded(_, _)
\* The decimal digits of n >= 0, zero-padded to width w.
Padded(n, w) ==
    IF w = 0 THEN <<>> ELSE Append(Padded(n \div 10, w - 1), DigitChars[(n % 10) + 1])

RECURSIVE NatText(_)
\* The decimal digits of n >= 0.
NatText(n) ==
    IF n < 10 THEN <<DigitChars[n + 1]>>
    ELSE Append(NatText(n \div 10), DigitChars[(n % 10) + 1])

\* dt.strftime('%Y-%m-%d'): the C library does not pad the year
FormatDate(d) == NatText(d[1]) \o <<"-">> \o Padded(d[2], 2) \o <<"-">> \o Padded(d[3], 2)

\* timestamp[:n] of a str or a list; Exc for a value that cannot be sliced.
Slice(x, a, b) ==
    CASE x.t = "str" -> PyStr(SubSeq(x.s, a + 1, IF b < Len(x.s) THEN b ELSE Len(x.s)))
      [] x.t = "arr" -> PyList(SubSeq(x.a, a + 1, IF b < Len(x.a) THEN b ELSE Len(x.a)))
      [] OTHER       -> Exc

\* len(x), 0 standing for the TypeError of a value without length (the caller
\* catches it and returns None as for a short value).
PyLen(x) ==
    CASE x.t = "str" -> Len(x.s)
      [] x.t = "arr" -> Len(x.a)
      [] x.t = "obj" -> Cardinality(DOMAIN x.o)
      [] OTHER       -> 0

\* int(x) of a str of decimal digits with optional sign and surrounding blanks;
\* Exc (ValueError, TypeError) for every other value.
ToInt(x) ==
    IF x.t # "str" THEN Exc
    ELSE LET b   == Strip(x.s)
             sgn == Len(b) > 0 /\ b[1] \in {"-", "+"}
             u   == IF sgn THEN Tail(b) ELSE b
         IN  IF Len(u) > 0 /\ AllDigits(u)
             THEN PyInt(IF sgn /\ b[1] = "-" THEN 0 - DigitsVal(u) ELSE DigitsVal(u))
             ELSE Exc

\* The value v of a try block, None when it raised.
NoneIfRaised(v) == IF IsExc(v) THEN None ELSE v

\* int(timestamp[a:b]), None when the slice or the conversion raises.
SliceInt(timestamp, a, b) == NoneIfRaised(ToInt(Slice(timestamp, a, b)))

\* Lines 429-437, d being the parsed date of the timestamp.
DateText(timestamp, d) ==
    IF ~Truthy(timestamp) THEN None
    ELSE IF d # <<>> THEN PyStr(FormatDate(d))
    ELSE IF timestamp.t \in {"str", "arr"} /\ PyLen(timestamp) >= 10
    THEN Slice(timestamp, 0, 10)
    ELSE None

_extract_date(timestamp) == DateText(timestamp, ParsedDate(timestamp))

\* Lines 444-450, 457-463 and 470-476: field k of the parsed date d, or the
\* integer of timestamp[a:b].
DateField(timestamp, d, k, a, b) ==
    IF ~Truthy(timestamp) THEN None
    ELSE IF d # <<>> THEN PyInt(d[k])
    ELSE SliceInt(timestamp, a, b)

_extract_year(timestamp) == DateField(timestamp, ParsedDate(timestamp), 1, 0, 4)

_extract_month(timestamp) == DateField(timestamp, ParsedDate(timestamp), 2, 5, 7)

_extract_day(timestamp) == DateField(timestamp, ParsedDate(timestamp), 3, 8, 10)

WeekdayNames ==
    << <<"M", "o", "n", "d", "a", "y">>,
       <<"T", "u", "e", "s", "d", "a", "y">>,
       <<"W", "e", "d", "n", "e", "s", "d", "a", "y">>,
       <<"T", "h", "u", "r", "s", "d", "a", "y">>,
       <<"F", "r", "i", "d", "a", "y">>,
       <<"S", "a", "t", "u", "r", "d", "a", "y">>,
       <<"S", "u", "n", "d", "a", "y">> >>

DaysBeforeYear(y) == (y - 1) * 365 + (y - 1) \div 4 - (y - 1) \div 100 + (y - 1) \div 400

RECURSIVE DaysBeforeMonth(_, _)
DaysBeforeMonth(y, m) ==
    IF m = 1 THEN 0 ELSE DaysBeforeMonth(y, m - 1) + DaysInMonth(y, m - 1)

\* The day of the week counted from Sunday.
Weekday_FromSunday(d) == (DaysBeforeYear(d[1]) + DaysBeforeMonth(d[1], d[2]) + d[3]) % 7

\* date.weekday(): 0 for Monday
Weekday(d) == (DaysBeforeYear(d[1]) + DaysBeforeMonth(d[1], d[2]) + d[3] + 6) % 7

\* dt.strftime('%A')
WeekdayText(timestamp, d) ==
    IF ~Truthy(timestamp) THEN None
    ELSE IF d # <<>> THEN PyStr(WeekdayNames[Weekday(d) + 1])
    ELSE None

_extract_weekday(timestamp) == WeekdayText(timestamp, ParsedDate(timestamp))

(***************************************************************************)
(* String order: sorted() compares str values by code point                *)
(***************************************************************************)
\* The characters of code points 32..126, in order; the double quote, the
\* backslash and the backquote are written "dquote", "backslash", "backquote".
Ascii ==
    << " ", "!", "dquote", "#", "$", "%", "&", "'", "(", ")", "*", "+", ",", "-", ".", "/",
       "0", "1", "2", "3", "4", "5", "6", "7", "8", "9", ":", ";", "<", "=", ">", "?",
       "@", "A", "B", "C", "D", "E", "F", "G", "H", "I", "J", "K", "L", "M", "N", "O",
       "P", "Q", "R", "S", "T", "U", "V", "W", "X", "Y", "Z", "[", "backslash", "]", "^", "_",
       "backquote", "a", "b", "c", "d", "e", "f", "g", "h", "i", "j", "k", "l", "m", "n", "o",
       "p", "q", "r", "s", "t", "u", "v", "w", "x", "y", "z", "{", "|", "}", "~" >>

\* ord(ch)
Ord(ch) ==
    IF ch = Degree THEN 176
    ELSE 31 + CHOOSE i \in 1..Len(Ascii) : Ascii[i] = ch

RECURSIVE StrLess(_, _)
\* a < b for two str values, given by their characters
StrLess(a, b) ==
    IF Len(b) = 0 THEN FALSE
    ELSE IF Len(a) = 0 THEN TRUE
    ELSE IF a[1] = b[1] THEN StrLess(Tail(a), Tail(b))
    ELSE Ord(a[1]) < Ord(b[1])

RECURSIVE Sorted(_)
\* sorted(S) for a set S of str values
Sorted(S) ==
    IF S = {} THEN <<>>
    ELSE LET m == CHOOSE x \in S : \A y \in S \ {x} : StrLess(x.s, y.s)
         IN  <<m>> \o Sorted(S \ {m})

(***************************************************************************)
(* to_geojson                                                              *)
(***************************************************************************)
VisitFeature(visit) ==
    [type       |-> "Feature",
     geometry   |-> [type |-> "Point", coordinates |-> <<visit.lng, visit.lat>>],
     properties |-> [name          |-> visit.name,
                     type          |-> "visit",
                     date          |-> _extract_date(visit.start_time),
                     year          |-> _extract_year(visit.start_time),
                     month         |-> _extract_month(visit.start_time),
                     day           |-> _extract_day(visit.start_time),
                     weekday       |-> _extract_weekday(visit.start_time),
                     start_time    |-> visit.start_time,
                     end_time      |-> visit.end_time,
                     place_id      |-> visit.place_id,
                     semantic_type |-> visit.semantic_type,
                     marker_color  |-> <<"#", "F", "F", "0", "0", "0", "0">>,
                     marker_symbol |-> "marker"]]

\* ActivityGeometry without the single-point case.
ActivityGeometry_AlwaysLine(path) ==
    [type |-> "LineString",
     coordinates |-> [i \in 1..Len(path) |-> <<path[i].lng, path[i].lat>>]]

\* Lines 386-392: a LineString of [lng, lat] pairs for a path of 2 points or
\* more, a Point for a single point.
ActivityGeometry(path) ==
    IF Len(path) >= 2
    THEN [type |-> "LineString",
          coordinates |-> [i \in 1..Len(path) |-> <<path[i].lng, path[i].lat>>]]
    ELSE [type |-> "Point", coordinates |-> <<path[1].lng, path[1].lat>>]

ActivityFeature(activity) ==
    [type       |-> "Feature",
     geometry   |-> ActivityGeometry(activity.path),
     properties |-> [name            |-> format_activity_type(activity.type),
                     type            |-> "activity",
                     activity_type   |-> activity.type,
                     date            |-> _extract_date(activity.start_time),
                     year            |-> _extract_year(activity.start_time),
                     month           |-> _extract_month(activity.start_time),
                     day             |-> _extract_day(activity.start_time),
                     weekday         |-> _extract_weekday(activity.start_time),
                     start_time      |-> activity.start_time,
                     end_time        |-> activity.end_time,
                     distance_meters |-> activity.distance,
                     stroke          |-> get_activity_color(activity.type),
                     stroke_width    |-> 4,
                     stroke_opacity  |-> PyFloat(8, 1)]]

\* Features with the activities before the visits.
Features_ActivitiesFirst(v, a) ==
    [i \in 1..Len(a) |-> ActivityFeature(a[i])] \o [i \in 1..Len(v) |-> VisitFeature(v[i])]

\* The features list: the visits in order, then the activities in order.
Features(v, a) ==
    [i \in 1..Len(v) |-> VisitFeature(v[i])] \o [i \in 1..Len(a) |-> ActivityFeature(a[i])]

\* to_geojson raises when the vocabulary lookups raise on an activity type.
to_geojson(v, a) ==
    IF \E i \in 1..Len(a) : IsExc(format_activity_type(a[i].type))
    THEN Exc
    ELSE [t |-> "geojson", type |-> "FeatureCollection", features |-> Features(v, a)]

(***************************************************************************)
(* to_kml                                                                  *)
(***************************************************************************)
Unknown == PyStr(<<"U", "n", "k", "n", "o", "w", "n">>)

RECURSIVE LStripHash(_)
\* color.lstrip('#')
LStripHash(s) == IF Len(s) > 0 /\ s[1] = "#" THEN LStripHash(Tail(s)) ELSE s

\* The hex color behind the opacity, its byte pairs left in place.
KmlColor_RGB(color) == <<"c", "c">> \o LStripHash(color)

\* Lines 503-504: '#RRGGBB' -> 'ccBBGGRR'
KmlColor(color) ==
    LET hex_color == LStripHash(color)
    IN  <<"c", "c">> \o SubSeq(hex_color, 5, 6) \o SubSeq(hex_color, 3, 4)
                     \o SubSeq(hex_color, 1, 2)

\* Lines 506-509: the Style element of an activity type
LineStyleOf(act_type) ==
    [id        |-> act_type,
     LineStyle |-> [color |-> PyStr(KmlColor(get_activity_color(act_type).s)),
                    width |-> "4"]]

\* Lines 512-516: the shared Style element of the visits
VisitStyle ==
    [id        |-> "visitStyle",
     IconStyle |-> [scale |-> "1.1",
                    Icon  |-> [href |-> "http://maps.google.com/mapfiles/kml/pushpin/red-pushpin.png"]]]

RECURSIVE Rotate(_, _)
Rotate(q, n) == IF n = 0 \/ q = <<>> THEN q ELSE Rotate(Append(Tail(q), Head(q)), n - 1)

\* The order in which a set of str values is iterated: it depends on the
\* string hashing of the process and is the same for the whole run.
SetOrder(seed, S) == Rotate(Sorted(S), (seed - 1) % (IF S = {} THEN 1 ELSE Cardinality(S)))

\* self._extract_date(x['start_time']) or 'Unknown'
DateOf(entity) == PyOr(_extract_date(entity.start_time), Unknown)

\* The TimeSpan element, present when both timestamps are truthy.
TimeSpanOf(entity) ==
    IF Truthy(entity.start_time) /\ Truthy(entity.end_time)
    THEN [t |-> "TimeSpan", begin |-> entity.start_time, end |-> entity.end_time]
    ELSE None

DescPart(label, value) == [label |-> label, value |-> value]

\* str(i) of an int
IntText(i) == IF i < 0 THEN <<"-">> \o NatText(0 - i) ELSE NatText(i)

Zeros(n) == [i \in 1..n |-> "0"]

\* repr of the float whose magnitude has the significant digits d and e of
\* them after the point: exponent notation below 0.0001, positional otherwise.
FloatDigitsText(d, e) ==
    IF Len(d) - e - 1 < 0 - 4
    THEN <<d[1]>> \o (IF Len(d) > 1 THEN <<".">> \o SubSeq(d, 2, Len(d)) ELSE <<>>)
              \o <<"e", "-">>
              \o (IF e + 1 - Len(d) < 10 THEN <<"0">> ELSE <<>>) \o NatText(e + 1 - Len(d))
    ELSE IF e = 0 THEN d \o <<".", "0">>
    ELSE IF Len(d) > e
    THEN SubSeq(d, 1, Len(d) - e) \o <<".">> \o SubSeq(d, Len(d) - e + 1, Len(d))
    ELSE <<"0", ".">> \o Zeros(e - Len(d)) \o d

\* str(x) of a float
FloatText(m, e) ==
    IF m < 0 THEN <<"-">> \o FloatDigitsText(NatText(0 - m), e)
    ELSE FloatDigitsText(NatText(m), e)

\* f"{x}" for the values a coordinate can be
Str(x) ==
    CASE x.t = "int"  -> IntText(x.i)
      [] x.t = "flt"  -> FloatText(x.m, x.e)
      [] x.t = "str"  -> x.s
      [] x.t = "bool" -> IF x.b THEN <<"T", "r", "u", "e">> ELSE <<"F", "a", "l", "s", "e">>
      [] x.t = "null" -> <<"N", "o", "n", "e">>

\* The coordinate text with the latitude first.
KmlPoint_LatFirst(lat, lng) == Str(lat) \o <<",">> \o Str(lng) \o <<",", "0">>

\* Lines 568 and 604: f"{lng},{lat},0"
KmlPoint(lat, lng) == Str(lng) \o <<",">> \o Str(lat) \o <<",", "0">>

RECURSIVE JoinLines(_)
\* '\n'.join(lines)
JoinLines(lines) ==
    IF lines = <<>> THEN <<>>
    ELSE IF Len(lines) = 1 THEN lines[1]
    ELSE lines[1] \o <<"\n">> \o JoinLines(Tail(lines))

DescIf(cond, label, value) == IF cond THEN <<DescPart(label, value)>> ELSE <<>>

\* Lines 549-568
VisitPlacemark(visit, date_str) ==
    [name        |-> visit.name,
     description |-> <<DescPart("Date", date_str)>>
                     \o DescIf(Truthy(visit.start_time), "Arrived", visit.start_time)
                     \o DescIf(Truthy(visit.end_time), "Departed", visit.end_time),
     TimeSpan    |-> TimeSpanOf(visit),
     styleUrl    |-> PyStr(<<"#", "v", "i", "s", "i", "t", "S", "t", "y", "l", "e">>),
     geometry    |-> [type |-> "Point", coordinates |-> KmlPoint(visit.lat, visit.lng)]]

\* Lines 580-605
ActivityPlacemark(activity, date_str) ==
    [name        |-> format_activity_type(activity.type),
     description |-> <<DescPart("Date", date_str)>>
                     \o DescIf(Truthy(activity.distance), "Distance", activity.distance)
                     \o DescIf(Truthy(activity.start_time), "Start", activity.start_time)
                     \o DescIf(Truthy(activity.end_time), "End", activity.end_time),
     TimeSpan    |-> TimeSpanOf(activity),
     styleUrl    |-> PyStr(<<"#">> \o activity.type.s),
     geometry    |-> [type |-> "LineString", tessellate |-> "1",
                      coordinates |-> JoinLines([i \in 1..Len(activity.path) |->
                          KmlPoint(activity.path[i].lat, activity.path[i].lng)])]]

\* The entities of q whose date is date_str, in order.
OnDate(q, date_str) ==
    LET Test(x) == DateOf(x) = date_str IN SelectSeq(q, Test)

\* Drawn without the length test.
Drawn_All(q) == q

\* Lines 576-578: the activities that get a placemark
Drawn(q) ==
    LET Test(x) == Len(x.path) >= 2 IN SelectSeq(q, Test)

\* Lines 539-605: the Folder of one date
FolderOf(date_str, date_visits, date_activities, drawn) ==
    [name    |-> date_str,
     folders |->
        (IF date_visits # <<>>
         THEN <<[name       |-> "Places Visited",
                 placemarks |-> [i \in 1..Len(date_visits) |->
                                    VisitPlacemark(date_visits[i], date_str)]]>>
         ELSE <<>>)
        \o
        (IF date_activities # <<>>
         THEN <<[name       |-> "Activities",
                 placemarks |-> [i \in 1..Len(drawn) |->
                                    ActivityPlacemark(drawn[i], date_str)]]>>
         ELSE <<>>)]

\* Lines 538-605 for one date: its visits and its activities, the drawn ones
\* being those that get a placemark.
DateFolder(v, a, date_str) ==
    FolderOf(date_str, OnDate(v, date_str), OnDate(a, date_str),
             Drawn(OnDate(a, date_str)))

\* The text of an element must be a str or None when the tree is serialised.
IsText(x) == x.t \in {"str", "null"}

\* to_kml raises on an activity type that is no str (lines 499-501), on a date
\* that cannot be a dict key (lines 521-530), on a distance that cannot be
\* divided (line 585) and on a text that cannot be serialised (line 608).
KmlRaises(v, a) ==
    \/ \E i \in 1..Len(a) : a[i].type.t # "str"
    \/ \E i \in 1..Len(v) : DateOf(v[i]).t # "str"
    \/ \E i \in 1..Len(a) : DateOf(a[i]).t # "str"
    \/ \E i \in 1..Len(v) :
          \/ ~IsText(v[i].name)
          \/ /\ TimeSpanOf(v[i]) # None
             /\ ~(IsText(v[i].start_time) /\ IsText(v[i].end_time))
    \/ \E i \in 1..Len(a) :
          /\ Len(a[i].path) >= 2
          /\ \/ Truthy(a[i].distance) /\ ~IsNumber(a[i].distance)
             \/ /\ TimeSpanOf(a[i]) # None
                /\ ~(IsText(a[i].start_time) /\ IsText(a[i].end_time))

\* The dates of all entities, the least one moved to the end.
AllDates_Rotated(v, a) ==
    Rotate(Sorted({DateOf(v[i]) : i \in 1..Len(v)} \cup {DateOf(a[i]) : i \in 1..Len(a)}), 1)

\* The dates of the folders: sorted(set(...)) of the dates of all entities.
AllDates(v, a) ==
    Sorted({DateOf(v[i]) : i \in 1..Len(v)} \cup {DateOf(a[i]) : i \in 1..Len(a)})

\* Lines 490-605: the document with one style per activity type, in the order
\* activity_types, and one folder per date, in the order all_dates.
KmlDocument(v, a, activity_types, all_dates) ==
    [t       |-> "kml",
     name    |-> "Timeline Export - Timeline",
     styles  |-> [i \in 1..Len(activity_types) |-> LineStyleOf(activity_types[i])],
     visit_style |-> VisitStyle,
     folders |-> [i \in 1..Len(all_dates) |-> DateFolder(v, a, all_dates[i])]]

\* The document to_kml builds, Exc when it raises; seed decides the order in
\* which set(a['type'] for a in self.activities) is iterated.
to_kml(v, a, seed) ==
    IF KmlRaises(v, a) THEN Exc
    ELSE KmlDocument(v, a, SetOrder(seed, {a[i].type : i \in 1..Len(a)}), AllDates(v, a))

(***************************************************************************)
(* Inputs: the values the records of the three schemas are built from      *)
(***************************************************************************)
\* 2024-01-15T08:00:00Z, 2024-01-15T09:00:00Z (a Monday), 2024-01-16T10:00:00Z
Ts1 == PyStr(<<"2", "0", "2", "4", "-", "0", "1", "-", "1", "5", "T", "0", "8", ":", "0", "0", ":", "0", "0", "Z">>)

Ts2 == PyStr(<<"2", "0", "2", "4", "-", "0", "1", "-", "1", "5", "T", "0", "9", ":", "0", "0", ":", "0", "0", "Z">>)

Ts3 == PyStr(<<"2", "0", "2", "4", "-", "0", "1", "-", "1", "6", "T", "1", "0", ":", "0", "0", ":", "0", "0", "Z">>)

Cafe == PyStr(<<"C", "a", "f", "e">>)

Place1 == PyStr(<<"p", "1">>)

WALKING == PyStr(<<"W", "A", "L", "K", "I", "N", "G">>)

Cycling == PyStr(<<"c", "y", "c", "l", "i", "n", "g">>)

\* 'geo:' strings: valid, valid, on the equator, latitude out of range, no number
GeoA == PyStr(<<"g", "e", "o", ":", "1", ".", "0", ",", "2", ".", "0">>)

GeoB == PyStr(<<"g", "e", "o", ":", "3", ".", "5", ",", "-", "4", ".", "2", "5">>)

GeoZero == PyStr(<<"g", "e", "o", ":", "0", ".", "0", ",", "3", "6", ".", "5">>)

GeoFar == PyStr(<<"g", "e", "o", ":", "9", "1", ".", "0", ",", "2", ".", "0">>)

GeoBad == PyStr(<<"g", "e", "o", ":", "x", ",", "2", ".", "0">>)

\* degree strings: valid, valid, on the equator, latitude out of range, no number
DegA == PyStr(<<"1", ".", "0", "deg", ",", " ", "2", ".", "0", "deg">>)

DegB == PyStr(<<"3", ".", "5", "deg", ",", " ", "-", "4", ".", "2", "5", "deg">>)

DegZero == PyStr(<<"0", ".", "0", "deg", ",", " ", "3", "6", ".", "5", "deg">>)

DegFar == PyStr(<<"9", "1", ".", "0", "deg", ",", " ", "2", ".", "0", "deg">>)

DegBad == PyStr(<<"n", "o", "r", "t", "h">>)

\* E7 locations {latitudeE7, longitudeE7}: the same five cases, the last one
\* with a latitude that is no number
E7A == PyDict([latitudeE7 |-> PyInt(10000000), longitudeE7 |-> PyInt(20000000)])

E7B == PyDict([latitudeE7 |-> PyInt(35000000), longitudeE7 |-> PyInt(0 - 42500000)])

E7Zero == PyDict([latitudeE7 |-> PyInt(0), longitudeE7 |-> PyInt(365000000)])

E7Far == PyDict([latitudeE7 |-> PyInt(910000000), longitudeE7 |-> PyInt(20000000)])

E7Bad == PyDict([latitudeE7 |-> PyStr(<<"x">>), longitudeE7 |-> PyInt(20000000)])

\* Records that are no object, as any schema may meet them.
JunkRecords == {None, PyInt(5), PyStr(<<"j", "u", "n", "k">>)}

\* The dict d with d[k] = v.
With(d, k, v) == PyDict([x \in DOMAIN d.o \cup {k} |-> IF x = k THEN v ELSE d.o[x]])

(***************************************************************************)
(* Records of the ios schema                                               *)
(***************************************************************************)
IosVisitOf(candidate) ==
    PyDict([startTime |-> Ts1, endTime |-> Ts2,
            visit |-> PyDict([topCandidate |-> candidate])])

IosActivityOf(activity) ==
    PyDict([startTime |-> Ts2, endTime |-> Ts3, activity |-> activity])

IosVisitRecords ==
    { IosVisitOf(PyDict([name |-> Cafe, placeLocation |-> GeoA, placeID |-> Place1])),
      IosVisitOf(PyDict([name |-> Cafe, placeLocation |-> GeoB, semanticType |-> Home])),
      IosVisitOf(PyDict([placeLocation |-> GeoA, semanticType |-> TYPE_WORK])),
      IosVisitOf(PyDict([placeLocation |-> GeoB])),
      IosVisitOf(PyDict([name |-> Cafe, placeLocation |-> GeoZero])),
      IosVisitOf(PyDict([name |-> Cafe, placeLocation |-> GeoFar])),
      IosVisitOf(PyDict([name |-> Cafe, placeLocation |-> GeoBad])),
      PyDict([startTime |-> Ts1, endTime |-> Ts2, visit |-> None]),
      PyDict([startTime |-> Ts1,
              visit |-> PyDict([topCandidate |->
                            PyDict([name |-> Cafe, placeLocation |-> GeoA])])]) }

IosActivityRecords ==
    { IosActivityOf(PyDict([start |-> GeoA, end |-> GeoB,
                            distanceMeters |-> PyInt(1500),
                            topCandidate |-> PyDict([type |-> WALKING])])),
      IosActivityOf(PyDict([start |-> GeoB,
                            topCandidate |-> PyDict([type |-> Cycling])])),
      IosActivityOf(PyDict([start |-> GeoA, end |-> GeoA])),
      IosActivityOf(PyDict([start |-> GeoA, end |-> GeoB,
                            topCandidate |-> PyDict([type |-> None])])),
      IosActivityOf(PyDict([topCandidate |-> PyDict([type |-> WALKING])])) }

IosRecords == JunkRecords \cup IosVisitRecords \cup IosActivityRecords

(***************************************************************************)
(* Records of the standard schema                                          *)
(***************************************************************************)
Duration12 == PyDict([startTimestamp |-> Ts1, endTimestamp |-> Ts2])

Duration23 == PyDict([startTimestamp |-> Ts2, endTimestamp |-> Ts3])

StdVisitOf(location) ==
    PyDict([placeVisit |-> PyDict([location |-> location, duration |-> Duration12])])

StdActivityOf(seg) == PyDict([activitySegment |-> With(seg, "duration", Duration23)])

PointE7(lat, lng) == PyDict([latE7 |-> PyInt(lat), lngE7 |-> PyInt(lng)])

PointPlain(lat, lng) == PyDict([lat |-> lat, lng |-> lng])

StdVisitRecords ==
    { StdVisitOf(With(With(E7A, "name", Cafe), "placeId", Place1)),
      StdVisitOf(With(With(E7B, "name", Cafe), "semanticType", TYPE_HOME)),
      StdVisitOf(With(E7A, "semanticType", Work)),
      StdVisitOf(E7B),
      StdVisitOf(With(E7Zero, "name", Cafe)),
      StdVisitOf(With(E7Far, "name", Cafe)),
      StdVisitOf(With(E7Bad, "name", Cafe)),
      PyDict([placeVisit |-> None]),
      PyDict([placeVisit |-> PyDict([location |-> With(E7A, "name", Cafe)])]) }

StdActivityRecords ==
    { StdActivityOf(PyDict([
          waypointPath |-> PyDict([waypoints |->
              PyList(<<PointE7(10000000, 20000000), PointE7(35000000, 0 - 42500000)>>)]),
          activityType |-> WALKING, distance |-> PyInt(1500)])),
      StdActivityOf(PyDict([
          startLocation |-> E7B,
          activities |-> PyList(<<PyDict([activityType |-> Cycling])>>)])),
      StdActivityOf(PyDict([
          simplifiedRawPath |-> PyDict([points |->
              PyList(<<PointPlain(PyFloat(15, 1), PyFloat(25, 1)),
                       PointE7(0, 365000000),
                       PointPlain(PyFloat(35, 1), PyInt(4))>>)]),
          startLocation |-> E7A])),
      StdActivityOf(PyDict([activityType |-> WALKING])) }

StdRecords == JunkRecords \cup StdVisitRecords \cup StdActivityRecords

(***************************************************************************)
(* Records of the semantic schema                                          *)
(***************************************************************************)
LatLng(s) == PyDict([latLng |-> s])

SemVisitOf(candidate) ==
    PyDict([startTime |-> Ts1, endTime |-> Ts2,
            visit |-> PyDict([topCandidate |-> candidate])])

SemActivityOf(activity, path) ==
    PyDict([startTime |-> Ts2, endTime |-> Ts3, activity |-> activity,
            timelinePath |-> PyList(path)])

SemVisitRecords ==
    { SemVisitOf(PyDict([name |-> Cafe, placeLocation |-> LatLng(DegA), placeId |-> Place1])),
      SemVisitOf(PyDict([name |-> Cafe, placeLocation |-> LatLng(DegB),
                         semanticType |-> Home])),
      SemVisitOf(PyDict([placeLocation |-> LatLng(DegA), semanticType |-> TYPE_WORK])),
      SemVisitOf(PyDict([placeLocation |-> LatLng(DegB)])),
      SemVisitOf(PyDict([name |-> Cafe, placeLocation |-> LatLng(DegZero)])),
      SemVisitOf(PyDict([name |-> Cafe, placeLocation |-> LatLng(DegFar)])),
      SemVisitOf(PyDict([name |-> Cafe, placeLocation |-> LatLng(DegBad)])),
      SemVisitOf(PyDict([name |-> Cafe, placeLocation |-> LatLng(PyInt(5))])),
      PyDict([startTime |-> Ts1, endTime |-> Ts2, visit |-> None]),
      PyDict([visit |-> PyDict([topCandidate |->
                  PyDict([name |-> Cafe, placeLocation |-> LatLng(DegA)])])]) }

SemActivityRecords ==
    { SemActivityOf(PyDict([distanceMeters |-> PyInt(1500),
                            topCandidate |-> PyDict([type |-> WALKING])]),
                    <<PyDict([point |-> DegA]), PyDict([point |-> DegB])>>),
      SemActivityOf(PyDict([start |-> LatLng(DegB),
                            topCandidate |-> PyDict([type |-> Cycling])]), <<>>),
      SemActivityOf(PyDict([start |-> LatLng(DegA)]),
                    <<PyDict([point |-> DegB]), PyDict([point |-> DegBad]),
                      PyDict([point |-> DegZero]), PyDict([point |-> DegA])>>),
      SemActivityOf(PyDict([topCandidate |-> PyDict([type |-> WALKING])]), <<>>) }

SemRecords == JunkRecords \cup SemVisitRecords \cup SemActivityRecords

(***************************************************************************)
(* Input files                                                             *)
(***************************************************************************)
\* The longest record list of an input.
MaxRecords == 2

\* The number of string hashings a process may run with.
HashSeeds == 2

Lists(R) == UNION {[1..n -> R] : n \in 0..MaxRecords}

IosRoots == {PyList(l) : l \in Lists(IosRecords)}

StdRoots == {PyDict([timelineObjects |-> PyList(l)]) : l \in Lists(StdRecords)}

SemRoots == {PyDict([semanticSegments |-> PyList(l)]) : l \in Lists(SemRecords)}

\* An object with both list keys, and roots of no schema.
BothRoots ==
    { PyDict([timelineObjects |-> PyList(<<r>>), semanticSegments |-> PyList(<<q>>)]) :
          r \in StdActivityRecords, q \in SemActivityRecords }

OtherRoots ==
    { EmptyDict, PyDict([locations |-> PyList(<<>>)]), None, PyInt(5), PyBool(TRUE),
      PyFloat(15, 1), EmptyStr, PyStr(<<"j", "u", "n", "k">>) }

Roots == IosRoots \cup StdRoots \cup SemRoots \cup BothRoots \cup OtherRoots

InputFiles == {Missing, Invalid} \cup {JsonFile(root) : root \in Roots}

\* No output file in the directory of the script.
NoFiles == [geojson |-> None, kml |-> None, kmz |-> None]

Init ==
    /\ input_file \in InputFiles
    /\ data = None
    /\ format_type = "none"
    /\ visits = <<>>
    /\ activities = <<>>
    /\ pc = "start"
    /\ error = "none"
    /\ geojson = None
    /\ kml = None
    /\ hash_seed = 0
    /\ step = "none"
    /\ files = NoFiles

\* Every call of one process may meet any string hashing.
SeedsOf_Any(h) == 1..HashSeeds

\* The string hashings a call may meet in a process whose hashing is h: any
\* one for the first set the process iterates, the same one from then on.
SeedsOf(h) == IF h = 0 THEN 1..HashSeeds ELSE {h}

\* A list of the model read by the loops of an encoder, as if they consumed it.
Untouched_Consumed(q) == <<>>

\* A list of the model after an encoder ran: 'for visit in self.visits' and
\* 'for activity in self.activities' (lines 353, 381, 499, 520, 528) read the
\* list and its entities, they assign to neither.
Untouched(q) == q

\* converter.to_geojson() on the loaded model; Exc records that it raised.
ToGeojson ==
    /\ pc = "loaded"
    /\ geojson' = to_geojson(visits, activities)
    /\ visits' = Untouched(visits)
    /\ activities' = Untouched(activities)
    /\ UNCHANGED <<input_file, data, format_type, pc, error, kml, hash_seed, step, files>>

\* converter.to_kml() on the loaded model; Exc records that it raised.
ToKml ==
    /\ pc = "loaded"
    /\ \E seed \in SeedsOf(hash_seed) :
          /\ hash_seed' = seed
          /\ kml' = to_kml(visits, activities, seed)
    /\ visits' = Untouched(visits)
    /\ activities' = Untouched(activities)
    /\ UNCHANGED <<input_file, data, format_type, pc, error, geojson, step, files>>

Next == Load \/ ToGeojson \/ ToKml

Spec == Init /\ [][Next]_vars

(***************************************************************************)
(* Inputs for the encoders: ios records, whose timestamps, names, types    *)
(* and distances are stored as they are in the file                        *)
(***************************************************************************)
SkyDive == PyStr(<<"s", "k", "y", "_", "d", "i", "v", "e">>)

IosTimed(start, end, body) ==
    PyDict([x \in DOMAIN body.o \cup {"startTime", "endTime"} |->
               IF x = "startTime" THEN start ELSE IF x = "endTime" THEN end ELSE body.o[x]])

EncVisit(start, end, geo) ==
    IosTimed(start, end,
        PyDict([visit |-> PyDict([topCandidate |->
                   PyDict([name |-> Cafe, placeLocation |-> geo])])]))

EncActivity(start, end, type) ==
    IosTimed(start, end,
        PyDict([activity |-> PyDict([start |-> GeoA, end |-> GeoB,
                   topCandidate |-> PyDict([type |-> type])])]))

EncVisitRecords ==
    { EncVisit(Ts1, Ts2, GeoA),
      EncVisit(EmptyStr, Ts2, GeoB),
      EncVisit(Ts1, None, GeoB) }

EncActivityRecords ==
    { EncActivity(Ts2, Ts3, WALKING),
      EncActivity(Ts2, EmptyStr, Cycling),
      EncActivity(None, Ts3, SkyDive),
      EncActivity(Ts2, Ts3, EmptyStr),
      EncActivity(Ts2, Ts3, None) }

EncRecords == EncVisitRecords \cup EncActivityRecords

EncInputFiles == {JsonFile(PyList(l)) : l \in Lists(EncRecords)}

\* The converter just constructed (lines 129-134), nothing encoded yet.
Constructed ==
    /\ data = None
    /\ format_type = "none"
    /\ visits = <<>>
    /\ activities = <<>>
    /\ pc = "start"
    /\ error = "none"
    /\ geojson = None
    /\ kml = None
    /\ hash_seed = 0

EncInit == input_file \in EncInputFiles /\ Constructed /\ step = "none" /\ files = NoFiles

EncSpec == EncInit /\ [][Next]_vars

(***************************************************************************)
(* main(): the run that loads Timeline.json and saves the three outputs    *)
(***************************************************************************)
\* What open() and the writing meet: the file is written, the file cannot be
\* opened for writing, the writing fails after the file was opened.
IoOutcomes == {"ok", "denied", "full"}

\* A file opened with mode 'w' whose writing did not complete.
Truncated == [t |-> "truncated"]

\* Lines 616-617: the file json.dump writes
GeojsonFile(g) ==
    [t |-> "file", encoding |-> "utf-8", indent |-> "2", ensure_ascii |-> FALSE, json |-> g]

\* Lines 626-627: the file f.write(kml) writes
KmlFile(k) == [t |-> "file", encoding |-> "utf-8", text |-> k]

\* Lines 636-637: the archive zf.writestr('doc.kml', kml) writes
KmzFile(k) ==
    [t |-> "zip", entries |-> <<[name |-> "doc.kml", compress_type |-> "ZIP_DEFLATED",
                                 data |-> k]>>]

\* The file after 'with open(path, "w") as f: write content'.
Written(old, content, io) ==
    CASE io = "ok"     -> content
      [] io = "denied" -> old
      [] io = "full"   -> Truncated

\* main() going on to the next save whatever the save did.
AfterSave_GoOn(result, io, next) == next

\* Where main() is after a save: the exception of the encoder or of the
\* writing is not caught and ends the run.
AfterSave(result, io, next) ==
    IF IsExc(result) THEN "crash_encode"
    ELSE IF io # "ok" THEN "crash_io"
    ELSE next

\* Lines 612-620: save_geojson, g being what self.to_geojson() gave
save_geojson(g, io, next) ==
    /\ geojson' = g
    /\ files' = IF IsExc(g) THEN files
                ELSE [files EXCEPT !.geojson = Written(@, GeojsonFile(g), io)]
    /\ step' = AfterSave(g, io, next)

\* Lines 622-630: save_kml, k being what self.to_kml() gave
save_kml(k, io, next) ==
    /\ kml' = k
    /\ files' = IF IsExc(k) THEN files
                ELSE [files EXCEPT !.kml = Written(@, KmlFile(k), io)]
    /\ step' = AfterSave(k, io, next)

\* Lines 632-640: save_kmz, k being what self.to_kml() gave
save_kmz(k, io, next) ==
    /\ kml' = k
    /\ files' = IF IsExc(k) THEN files
                ELSE [files EXCEPT !.kmz = Written(@, KmzFile(k), io)]
    /\ step' = AfterSave(k, io, next)

\* Lines 645-662: main() up to the converter, exit 1 when there is no file
MainStart ==
    /\ step = "main"
    /\ step' = IF input_file.t = "missing" THEN "exit1" ELSE "load"
    /\ UNCHANGED <<input_file, data, format_type, visits, activities, pc, error, geojson,
                   kml, hash_seed, files>>

\* Line 663: converter.load()
MainLoad == step = "load" /\ Load

\* MainCheck without the test of lines 667-670 for an empty model.
MainCheck_NoEmptyTest ==
    /\ step = "load"
    /\ pc # "start"
    /\ step' = CASE pc = "raised" -> "crash_parse"
                 [] pc = "failed" -> "exit1"
                 [] pc = "loaded" -> "geojson"
    /\ UNCHANGED <<input_file, data, format_type, visits, activities, pc, error, geojson,
                   kml, hash_seed, files>>

\* Lines 663-670: exit 1 when load() returned False or the model is empty; an
\* exception of load() is not caught.
MainCheck ==
    /\ step = "load"
    /\ pc # "start"
    /\ step' = CASE pc = "raised" -> "crash_parse"
                 [] pc = "failed" -> "exit1"
                 [] pc = "loaded" ->
                        IF Len(visits) = 0 /\ Len(activities) = 0 THEN "exit1"
                        ELSE "geojson"
    /\ UNCHANGED <<input_file, data, format_type, visits, activities, pc, error, geojson,
                   kml, hash_seed, files>>

\* Line 677: converter.save_geojson(script_dir / "Timeline.geojson")
SaveGeojson ==
    /\ step = "geojson"
    /\ \E io \in IoOutcomes : save_geojson(to_geojson(visits, activities), io, "kml")
    /\ UNCHANGED <<input_file, data, format_type, visits, activities, pc, error, kml,
                   hash_seed>>

\* Line 678: converter.save_kml(script_dir / "Timeline.kml")
SaveKml ==
    /\ step = "kml"
    /\ \E io \in IoOutcomes, seed \in SeedsOf(hash_seed) :
          /\ hash_seed' = seed
          /\ save_kml(to_kml(visits, activities, seed), io, "kmz")
    /\ UNCHANGED <<input_file, data, format_type, visits, activities, pc, error, geojson>>

\* Line 679: converter.save_kmz(script_dir / "Timeline.kmz")
SaveKmz ==
    /\ step = "kmz"
    /\ \E io \in IoOutcomes, seed \in SeedsOf(hash_seed) :
          /\ hash_seed' = seed
          /\ save_kmz(to_kml(visits, activities, seed), io, "done")
    /\ UNCHANGED <<input_file, data, format_type, visits, activities, pc, error, geojson>>

\* Inputs of the runs: roots of no schema and ios lists of records that are
\* kept, dropped, that make load() raise and that make an encoder raise.
MainRecords ==
    { EncVisit(Ts1, Ts2, GeoA),
      EncVisit(Ts1, Ts2, GeoBad),
      IosVisitOf(PyDict([name |-> PyInt(5), placeLocation |-> GeoB])),
      EncActivity(Ts2, Ts3, WALKING),
      EncActivity(Ts2, Ts3, Cycling),
      EncActivity(Ts2, Ts3, None),
      PyInt(5) }

MainInputFiles ==
    {Missing, Invalid, JsonFile(EmptyDict), JsonFile(PyInt(5)),
     JsonFile(PyDict([timelineObjects |-> PyList(<<>>)]))}
        \cup {JsonFile(PyList(l)) : l \in Lists(MainRecords)}

MainInit == input_file \in MainInputFiles /\ Constructed /\ step = "main" /\ files = NoFiles

MainNext == MainStart \/ MainLoad \/ MainCheck \/ SaveGeojson \/ SaveKml \/ SaveKmz

MainSpec == MainInit /\ [][MainNext]_vars

(***************************************************************************)
(* main() with each save in its steps: the encoder runs, the file is       *)
(* opened, the content is written and the with block closes the file       *)
(***************************************************************************)
Outputs == {"geojson", "kml", "kmz"}

\* A file open for writing: open(path, 'w') and ZipFile(path, 'w') created or
\* truncated it, nothing is written yet.
Opened == [t |-> "open"]

\* A file an earlier run left in the directory.
Old == [t |-> "old"]

OldFiles == [geojson |-> Old, kml |-> Old, kmz |-> Old]

\* The positions of main() inside the save of an output: before open(), and
\* inside the with block.
OpenStep(out) ==
    CASE out = "geojson" -> "geojson_open" [] out = "kml" -> "kml_open" [] out = "kmz" -> "kmz_open"

WriteStep(out) ==
    CASE out = "geojson" -> "geojson_write" [] out = "kml" -> "kml_write"
      [] out = "kmz" -> "kmz_write"

\* Lines 677-679: the save after the save of out
NextOutput(out) ==
    CASE out = "geojson" -> "kml" [] out = "kml" -> "kmz" [] out = "kmz" -> "done"

\* Lines 614, 624, 634: what the encoder of an output gives
EncodeFor(out, v, a, seed) == IF out = "geojson" THEN to_geojson(v, a) ELSE to_kml(v, a, seed)

\* The local variable of the save holds r; an exception leaves main().
Encoded(out, r, seed) ==
    /\ geojson' = IF out = "geojson" THEN r ELSE geojson
    /\ kml' = IF out = "geojson" THEN kml ELSE r
    /\ hash_seed' = IF out = "geojson" THEN hash_seed ELSE seed
    /\ step' = IF IsExc(r) THEN "crash_encode" ELSE OpenStep(out)

\* Lines 614, 624, 634: geojson = self.to_geojson(), kml = self.to_kml()
IoEncode ==
    \E out \in Outputs, seed \in SeedsOf(hash_seed) :
        /\ step = out
        /\ Encoded(out, EncodeFor(out, visits, activities, seed), seed)
        /\ UNCHANGED <<input_file, data, format_type, visits, activities, pc, error, files>>

\* Lines 616, 626, 636: open(output_path, 'w') and ZipFile(output_path, 'w')
\* create or truncate the file, or raise and leave it as it is.
IoOpen ==
    \E out \in Outputs, io \in {"ok", "denied"} :
        /\ step = OpenStep(out)
        /\ files' = IF io = "ok" THEN [files EXCEPT ![out] = Opened] ELSE files
        /\ step' = IF io = "ok" THEN WriteStep(out) ELSE "crash_io"
        /\ UNCHANGED <<input_file, data, format_type, visits, activities, pc, error, geojson,
                       kml, hash_seed>>

\* The content the with block of an output writes.
ContentOf(out, g, k) ==
    CASE out = "geojson" -> GeojsonFile(g) [] out = "kml" -> KmlFile(k) [] out = "kmz" -> KmzFile(k)

\* The file a with block leaves open when the writing raises.
AfterWrite_LeftOpen(content, io) == IF io = "ok" THEN content ELSE Opened

\* The file when the with block is left: the context manager closes it after
\* the writing and when the writing raises (json.dump, f.write, zf.writestr).
AfterWrite(content, io) == IF io = "ok" THEN content ELSE Truncated

\* Lines 616-617, 626-627, 636-637: the body and the exit of the with block
IoWrite ==
    \E out \in Outputs, io \in {"ok", "full"} :
        /\ step = WriteStep(out)
        /\ files' = [files EXCEPT ![out] = AfterWrite(ContentOf(out, geojson, kml), io)]
        /\ step' = IF io = "ok" THEN NextOutput(out) ELSE "crash_io"
        /\ UNCHANGED <<input_file, data, format_type, visits, activities, pc, error, geojson,
                       kml, hash_seed>>

IoInit ==
    /\ input_file \in MainInputFiles
    /\ Constructed
    /\ step = "main"
    /\ files \in {NoFiles, OldFiles}

IoNext == MainStart \/ MainLoad \/ MainCheck \/ IoEncode \/ IoOpen \/ IoWrite

IoSpec == IoInit /\ [][IoNext]_vars

(***************************************************************************)
(* The converter used as a library: after load() the caller calls the      *)
(* encoders and the savers in any order and goes on when one of them raises*)
(***************************************************************************)
\* step after a call of a saver: it returned, the encoder raised, the writing
\* raised.
Returned == {"none", "crash_encode", "crash_io"}

\* converter.save_geojson(path) called on the loaded model
CallSaveGeojson ==
    /\ pc = "loaded"
    /\ step \in Returned
    /\ \E io \in IoOutcomes : save_geojson(to_geojson(visits, activities), io, "none")
    /\ visits' = Untouched(visits)
    /\ activities' = Untouched(activities)
    /\ UNCHANGED <<input_file, data, format_type, pc, error, kml, hash_seed>>

\* converter.save_kml(path) called on the loaded model
CallSaveKml ==
    /\ pc = "loaded"
    /\ step \in Returned
    /\ \E io \in IoOutcomes, seed \in SeedsOf(hash_seed) :
          /\ hash_seed' = seed
          /\ save_kml(to_kml(visits, activities, seed), io, "none")
    /\ visits' = Untouched(visits)
    /\ activities' = Untouched(activities)
    /\ UNCHANGED <<input_file, data, format_type, pc, error, geojson>>

\* converter.save_kmz(path) called on the loaded model
CallSaveKmz ==
    /\ pc = "loaded"
    /\ step \in Returned
    /\ \E io \in IoOutcomes, seed \in SeedsOf(hash_seed) :
          /\ hash_seed' = seed
          /\ save_kmz(to_kml(visits, activities, seed), io, "none")
    /\ visits' = Untouched(visits)
    /\ activities' = Untouched(activities)
    /\ UNCHANGED <<input_file, data, format_type, pc, error, geojson>>

\* Records that are kept and that make an encoder raise.
ApiRecords ==
    { EncVisit(Ts1, Ts2, GeoA),
      EncActivity(Ts2, Ts3, WALKING),
      EncActivity(Ts3, Ts3, None) }

ApiInputFiles == {JsonFile(PyList(l)) : l \in Lists(ApiRecords)}

ApiInit == input_file \in ApiInputFiles /\ Constructed /\ step = "none" /\ files = NoFiles

ApiNext == Load \/ ToGeojson \/ ToKml \/ CallSaveGeojson \/ CallSaveKml \/ CallSaveKmz

ApiSpec == ApiInit /\ [][ApiNext]_vars

(***************************************************************************)
(* Inputs for the activity paths: one or several primary lists, with and   *)
(* without a start and an end                                              *)
(***************************************************************************)
\* Path points (1.5, 2.5), (4.5, 5.5), (6.5, 7.5) and (8.5, 9.5)
PtA == PointE7(15000000, 25000000)

PtB == PointPlain(PyFloat(45, 1), PyFloat(55, 1))

PtC == PointE7(65000000, 75000000)

PtD == PointPlain(PyFloat(85, 1), PyFloat(95, 1))

PointsAt(key, points) == PyDict([x \in {key} |-> PyList(points)])

PathStdRecords ==
    { StdActivityOf(PyDict([waypointPath |-> PointsAt("waypoints", <<PtA>>),
                            endLocation |-> E7B])),
      StdActivityOf(PyDict([waypointPath |-> PointsAt("waypoints", <<PtA>>),
                            startLocation |-> E7A, endLocation |-> E7B])),
      StdActivityOf(PyDict([timelinePath |-> PointsAt("points", <<PtA>>)])),
      StdActivityOf(PyDict([endLocation |-> E7B])),
      StdActivityOf(EmptyDict),
      StdActivityOf(PyDict([waypointPath |-> PointsAt("waypoints", <<PtA, PtB>>),
                            simplifiedRawPath |-> PointsAt("points", <<PtC, PtD>>),
                            timelinePath |-> PointsAt("points", <<PtD, PtA>>)])),
      StdActivityOf(PyDict([waypointPath |-> PointsAt("waypoints", <<>>),
                            simplifiedRawPath |-> PointsAt("points", <<PtC, PtD>>),
                            timelinePath |-> PointsAt("points", <<PtD, PtA>>)])),
      StdActivityOf(PyDict([simplifiedRawPath |-> PointsAt("points", <<>>),
                            timelinePath |-> PointsAt("points", <<PtD, PtA, PtB>>)])) }

PathSemRecords ==
    { SemActivityOf(PyDict([end |-> LatLng(DegB)]), <<PyDict([point |-> DegA])>>),
      SemActivityOf(PyDict([start |-> LatLng(DegB), end |-> LatLng(DegA)]),
                    <<PyDict([point |-> DegA])>>),
      SemActivityOf(EmptyDict, <<PyDict([point |-> DegA])>>),
      SemActivityOf(PyDict([end |-> LatLng(DegB)]), <<>>) }

PathIosRecords ==
    { IosActivityOf(PyDict([start |-> GeoA, end |-> GeoB])),
      IosActivityOf(PyDict([end |-> GeoB])) }

PathInputFiles ==
    {JsonFile(PyDict([timelineObjects |-> PyList(l)])) : l \in Lists(PathStdRecords)}
        \cup {JsonFile(PyDict([semanticSegments |-> PyList(l)])) : l \in Lists(PathSemRecords)}
        \cup {JsonFile(PyList(l)) : l \in Lists(PathIosRecords)}

PathInit == input_file \in PathInputFiles /\ Constructed /\ step = "none" /\ files = NoFiles

PathSpec == PathInit /\ [][Next]_vars

(***************************************************************************)
(* Inputs for the activity type of the standard schema: segments with and  *)
(* without activityType and an activities list, each with a two-point path *)
(***************************************************************************)
TypedSegment(fields) ==
    StdActivityOf(With(fields, "waypointPath", PointsAt("waypoints", <<PtA, PtB>>)))

TypeOf(type) == PyDict([activityType |-> type])

TypeRecords ==
    { TypedSegment(PyDict([activityType |-> WALKING,
                           activities |-> PyList(<<TypeOf(Cycling)>>)])),
      TypedSegment(PyDict([activityType |-> EmptyStr,
                           activities |-> PyList(<<TypeOf(Cycling), TypeOf(WALKING)>>)])),
      TypedSegment(PyDict([activities |-> PyList(<<EmptyDict, TypeOf(WALKING)>>)])),
      TypedSegment(PyDict([activityType |-> None, activities |-> PyList(<<>>)])),
      TypedSegment(PyDict([activities |-> PyList(<<TypeOf(EmptyStr)>>)])),
      TypedSegment(EmptyDict) }

TypeInputFiles ==
    {JsonFile(PyDict([timelineObjects |-> PyList(l)])) : l \in Lists(TypeRecords)}

TypeInit == input_file \in TypeInputFiles /\ Constructed /\ step = "none" /\ files = NoFiles

TypeSpec == TypeInit /\ [][Next]_vars

(***************************************************************************)
(* Inputs for the record keys: records with the visit key, the activity    *)
(* key, both and neither, in the three schemas                             *)
(***************************************************************************)
\* The record with the keys of r and of q, the values of r first.
Merge(r, q) ==
    PyDict([k \in DOMAIN r.o \cup DOMAIN q.o |-> IF k \in DOMAIN r.o THEN r.o[k] ELSE q.o[k]])

\* For a visit, a visit without coordinates and an activity: each alone, the
\* activity with each of the visits, and the record without its keys.
KeyRecordsOf(visit, lost_visit, activity, bare) ==
    {visit, lost_visit, activity, Merge(visit, activity), Merge(lost_visit, activity), bare}

KeyIosRecords ==
    KeyRecordsOf(EncVisit(Ts1, Ts2, GeoA), EncVisit(Ts1, Ts2, GeoBad),
                 EncActivity(Ts2, Ts3, WALKING),
                 PyDict([startTime |-> Ts1, endTime |-> Ts2]))

KeyStdRecords ==
    KeyRecordsOf(StdVisitOf(With(E7A, "name", Cafe)), StdVisitOf(PyDict([name |-> Cafe])),
                 TypedSegment(PyDict([activityType |-> WALKING])),
                 EmptyDict)

KeySemRecords ==
    KeyRecordsOf(SemVisitOf(PyDict([name |-> Cafe, placeLocation |-> LatLng(DegA)])),
                 SemVisitOf(PyDict([name |-> Cafe, placeLocation |-> LatLng(DegBad)])),
                 SemActivityOf(PyDict([topCandidate |-> PyDict([type |-> WALKING])]),
                               <<PyDict([point |-> DegA]), PyDict([point |-> DegB])>>),
                 PyDict([startTime |-> Ts2, endTime |-> Ts3,
                         timelinePath |-> PyList(<<PyDict([point |-> DegA]),
                                                   PyDict([point |-> DegB])>>)]))

KeyInputFiles ==
    {JsonFile(PyList(l)) : l \in Lists(KeyIosRecords)}
        \cup {JsonFile(PyDict([timelineObjects |-> PyList(l)])) : l \in Lists(KeyStdRecords)}
        \cup {JsonFile(PyDict([semanticSegments |-> PyList(l)])) : l \in Lists(KeySemRecords)}

KeyInit == input_file \in KeyInputFiles /\ Constructed /\ step = "none" /\ files = NoFiles

KeySpec == KeyInit /\ [][Next]_vars

(***************************************************************************)
(* Inputs for the dates: ios records whose startTime parses, parses with   *)
(* an offset or a short year, does not parse, is short, empty or null      *)
(***************************************************************************)
\* 2023-12-31T23:30:00+02:00 (a Sunday)
TsOffset == PyStr(<<"2", "0", "2", "3", "-", "1", "2", "-", "3", "1", "T", "2", "3", ":", "3", "0", ":", "0", "0", "+", "0", "2", ":", "0", "0">>)

\* 0999-01-05 (a Saturday)
TsEarly == PyStr(<<"0", "9", "9", "9", "-", "0", "1", "-", "0", "5">>)

\* 2024/01/17 08:00
TsSlashes == PyStr(<<"2", "0", "2", "4", "/", "0", "1", "/", "1", "7", " ", "0", "8", ":", "0", "0">>)

\* Jan 15 2024, 8am
TsWords == PyStr(<<"J", "a", "n", " ", "1", "5", " ", "2", "0", "2", "4", ",", " ", "8", "a", "m">>)

\* 2024-01
TsShort == PyStr(<<"2", "0", "2", "4", "-", "0", "1">>)

Timestamps == {Ts1, Ts3, TsOffset, TsEarly, TsSlashes, TsWords, TsShort, EmptyStr, None}

DateRecords ==
    {EncVisit(ts, Ts3, GeoA) : ts \in Timestamps}
        \cup { EncActivity(Ts1, Ts3, WALKING),
               EncActivity(TsOffset, Ts3, Cycling),
               IosTimed(Ts3, Ts3, PyDict([activity |-> PyDict([start |-> GeoB])])) }

DateInputFiles == {JsonFile(PyList(l)) : l \in Lists(DateRecords)}

DateInit == input_file \in DateInputFiles /\ Constructed /\ step = "none" /\ files = NoFiles

DateSpec == DateInit /\ [][Next]_vars

(***************************************************************************)
(* What a source record says, read field by field as the spec describes    *)
(* the schemas; the claims compare the model with it.                      *)
(***************************************************************************)
\* x[k] when x is an object holding k, None otherwise.
Field(x, k) == IF x.t = "obj" /\ k \in DOMAIN x.o THEN x.o[k] ELSE None

HasField(x, k) == x.t = "obj" /\ k \in DOMAIN x.o

\* The schema of the input by the shape of its root, "none" for no schema.
InputSchema ==
    IF input_file.t # "json" THEN "none"
    ELSE IF input_file.root.t = "arr" THEN "ios"
    ELSE IF HasField(input_file.root, "timelineObjects") THEN "standard"
    ELSE IF HasField(input_file.root, "semanticSegments") THEN "semantic"
    ELSE "none"

\* The record list of an input of a schema.
InputRecords ==
    CASE InputSchema = "ios"      -> input_file.root.a
      [] InputSchema = "standard" -> input_file.root.o.timelineObjects.a
      [] InputSchema = "semantic" -> input_file.root.o.semanticSegments.a
      [] OTHER                    -> <<>>

VisitKey(fmt) == IF fmt = "standard" THEN "placeVisit" ELSE "visit"

ActivityKey(fmt) == IF fmt = "standard" THEN "activitySegment" ELSE "activity"

\* A record with the visit key (and, in the ios schema, both timestamps).
IsVisitRecord(fmt, r) ==
    /\ HasField(r, VisitKey(fmt))
    /\ fmt = "ios" => HasField(r, "startTime") /\ HasField(r, "endTime")

\* A record with the activity key and without the visit key.
IsActivityRecord(fmt, r) ==
    /\ HasField(r, ActivityKey(fmt)) /\ ~HasField(r, VisitKey(fmt))
    /\ fmt = "ios" => HasField(r, "startTime") /\ HasField(r, "endTime")

\* The object that holds the name and the semantic type of a visit record.
VisitPlace(fmt, r) ==
    IF fmt = "standard" THEN Field(Field(r, "placeVisit"), "location")
    ELSE Field(Field(r, "visit"), "topCandidate")

\* The coordinates an E7 location holds, None when it holds no two integers.
E7Pair(loc) ==
    IF Field(loc, "latitudeE7").t = "int" /\ Field(loc, "longitudeE7").t = "int"
    THEN PyTuple(Div1e7(Field(loc, "latitudeE7")), Div1e7(Field(loc, "longitudeE7")))
    ELSE None

\* The coordinates a degree string holds, None when x is no such string.
DegPair(x) == IF x.t = "str" THEN parse_latlng_string(x) ELSE None

\* The coordinates a visit record holds, None when it holds none.
SourceVisitCoords(fmt, r) ==
    CASE fmt = "ios"      -> parse_geo_string(Field(VisitPlace(fmt, r), "placeLocation"))
      [] fmt = "standard" -> E7Pair(VisitPlace(fmt, r))
      [] fmt = "semantic" ->
             DegPair(Field(Field(VisitPlace(fmt, r), "placeLocation"), "latLng"))

\* x <= n and x >= n for a number x and an integer n
NumLeq(x, n) == IF x.t = "int" THEN x.i <= n ELSE x.m <= n * Pow10(x.e)

NumGeq(x, n) == IF x.t = "int" THEN x.i >= n ELSE x.m >= n * Pow10(x.e)

\* A coordinate pair within the valid ranges of section 3 of the spec.
ValidPair(c) ==
    /\ c.t = "tup"
    /\ c.lat.t \in {"int", "flt"} /\ c.lng.t \in {"int", "flt"}
    /\ NumGeq(c.lat, 0 - 90) /\ NumLeq(c.lat, 90)
    /\ NumGeq(c.lng, 0 - 180) /\ NumLeq(c.lng, 180)

\* The plain or E7 point of a standard path, None when it is neither.
StdSourcePoint(pt) ==
    IF pt.t # "obj" THEN None
    ELSE IF IsExc(StdPointLat(pt)) \/ IsExc(StdPointLng(pt)) THEN None
    ELSE PyTuple(StdPointLat(pt), StdPointLng(pt))

\* The first present and non-empty list of the three path sources.
StdSourceList(seg) ==
    LET w == Field(Field(seg, "waypointPath"), "waypoints")
        p == Field(Field(seg, "simplifiedRawPath"), "points")
        q == Field(Field(seg, "timelinePath"), "points")
    IN  IF w.t = "arr" /\ w.a # <<>> THEN w.a
        ELSE IF p.t = "arr" /\ p.a # <<>> THEN p.a
        ELSE IF q.t = "arr" /\ q.a # <<>> THEN q.a
        ELSE <<>>

SemSourceList(r) ==
    IF Field(r, "timelinePath").t = "arr" THEN Field(r, "timelinePath").a ELSE <<>>

\* The pairs of q, in order.
Pairs(q) == LET Test(x) == x.t = "tup" IN SelectSeq(q, Test)

\* The points an activity record holds, in source order: the primary path in
\* list order, then the start, then the end.
SourcePoints(fmt, r) ==
    CASE fmt = "ios" ->
             Pairs(<<parse_geo_string(Field(Field(r, "activity"), "start")),
                     parse_geo_string(Field(Field(r, "activity"), "end"))>>)
      [] fmt = "standard" ->
             LET seg == Field(r, "activitySegment")
                 l   == StdSourceList(seg)
             IN  Pairs([i \in 1..Len(l) |-> StdSourcePoint(l[i])]
                       \o <<E7Pair(Field(seg, "startLocation")),
                            E7Pair(Field(seg, "endLocation"))>>)
      [] fmt = "semantic" ->
             LET l == SemSourceList(r)
             IN  Pairs([i \in 1..Len(l) |-> DegPair(Field(l[i], "point"))]
                       \o <<DegPair(Field(Field(Field(r, "activity"), "start"), "latLng")),
                            DegPair(Field(Field(Field(r, "activity"), "end"), "latLng"))>>)

\* A visit record with coordinates in the valid ranges.
ValidVisitRecord(fmt, r) ==
    IsVisitRecord(fmt, r) /\ ValidPair(SourceVisitCoords(fmt, r))

\* An activity record with exactly two path points, both in the valid ranges.
ValidTwoPointActivity(fmt, r) ==
    /\ IsActivityRecord(fmt, r)
    /\ Len(SourcePoints(fmt, r)) = 2
    /\ \A i \in 1..2 : ValidPair(SourcePoints(fmt, r)[i])

\* A visit record whose containers are objects and whose coordinate field is
\* absent or holds no coordinates.
UnrecoverableVisit(fmt, r) ==
    /\ IsVisitRecord(fmt, r)
    /\ VisitPlace(fmt, r).t = "obj"
    /\ fmt = "semantic" /\ HasField(VisitPlace(fmt, r), "placeLocation")
           => Field(VisitPlace(fmt, r), "placeLocation").t = "obj"
    /\ SourceVisitCoords(fmt, r) = None

\* An activity record that holds no point at all.
UnrecoverableActivity(fmt, r) ==
    /\ IsActivityRecord(fmt, r)
    /\ Field(r, ActivityKey(fmt)).t = "obj"
    /\ SourcePoints(fmt, r) = <<>>

RECURSIVE IsSubseq(_, _)
\* a is b with some elements left out.
IsSubseq(a, b) ==
    IF a = <<>> THEN TRUE
    ELSE IF b = <<>> THEN FALSE
    ELSE IF Head(a) = Head(b) THEN IsSubseq(Tail(a), Tail(b))
    ELSE IsSubseq(a, Tail(b))

\* load() has run.
LoadDone == pc # "start"

(***************************************************************************)
(* Claims                                                                  *)
(***************************************************************************)
RECURSIVE EntitiesOf(_, _, _)
\* The visits (kind "v") or activities (kind "a") the records give when each
\* is handled on its own and a record that raises gives nothing.
EntitiesOf(fmt, records, kind) ==
    IF records = <<>> THEN <<>>
    ELSE LET r == ParseItem(fmt, Head(records))
         IN  (IF r.exc THEN <<>> ELSE IF kind = "v" THEN r.v ELSE r.a)
             \o EntitiesOf(fmt, Tail(records), kind)

\* C1: in every schema load() never raises on a malformed record: it returns,
\* and the model holds exactly the entities of the other records, as if the
\* malformed record were not in the list.
C1_MalformedRecordSkipped ==
    (LoadDone /\ InputSchema # "none") =>
        /\ pc = "loaded"
        /\ visits = EntitiesOf(InputSchema, InputRecords, "v")
        /\ activities = EntitiesOf(InputSchema, InputRecords, "a")

\* C2: for a root that is an array or an object, load() selects 'ios' for an
\* array, 'standard' for an object with timelineObjects (also when it has
\* semanticSegments too), 'semantic' for an object with semanticSegments and
\* without timelineObjects, and the model is the one that schema's parser gives.
C2_SchemaSelected ==
    (LoadDone /\ InputSchema # "none") =>
        /\ format_type = InputSchema
        /\ visits = Parse(InputSchema, input_file.root, <<>>, <<>>).v
        /\ activities = Parse(InputSchema, input_file.root, <<>>, <<>>).a
        /\ error = "none"

\* C2 witness: an object with both keys was loaded as 'standard' and gave an
\* activity.
C2_Witness ==
    /\ pc = "loaded"
    /\ HasField(input_file.root, "timelineObjects")
    /\ HasField(input_file.root, "semanticSegments")
    /\ format_type = "standard"
    /\ Len(activities) >= 1

\* C3: for a root of no schema (an object without the two keys, a string, a
\* number, a boolean, null) load() ends in the unrecognized-format failure
\* without raising, and visits and activities stay empty.
C3_UnrecognizedFails ==
    (LoadDone /\ input_file.t = "json" /\ InputSchema = "none") =>
        /\ pc = "failed"
        /\ error = "unrecognized"
        /\ visits = <<>>
        /\ activities = <<>>

\* C4: in every schema an input of exactly one visit record with valid
\* coordinates and one activity record with two valid path points gives, after
\* load(), one visit and one activity.
C4_OneVisitOneActivity ==
    (/\ LoadDone
     /\ Len(InputRecords) = 2
     /\ \E i, j \in 1..2 :
           /\ i # j
           /\ ValidVisitRecord(InputSchema, InputRecords[i])
           /\ ValidTwoPointActivity(InputSchema, InputRecords[j]))
    => (pc = "loaded" /\ Len(visits) = 1 /\ Len(activities) = 1)

\* C5: in every schema an input of one valid record and one record whose
\* coordinates are absent or unparseable gives exactly one entity, and load()
\* does not raise.
C5_UnrecoverableDropped ==
    (/\ LoadDone
     /\ Len(InputRecords) = 2
     /\ \E i, j \in 1..2 :
           /\ i # j
           /\ \/ ValidVisitRecord(InputSchema, InputRecords[i])
              \/ ValidTwoPointActivity(InputSchema, InputRecords[i])
           /\ \/ UnrecoverableVisit(InputSchema, InputRecords[j])
              \/ UnrecoverableActivity(InputSchema, InputRecords[j]))
    => (pc = "loaded" /\ Len(visits) + Len(activities) = 1)

\* C6: after load() every Visit of the model has lat in [-90,90] and lng in
\* [-180,180].
C6_VisitsInRange ==
    LoadDone =>
        \A i \in 1..Len(visits) : ValidPair(PyTuple(visits[i].lat, visits[i].lng))

\* C7: after load() every Activity has a path of at least one point, and the
\* points of the path are points of one source record in the order of that
\* record: primary path points in list order, start before end.
C7_PathOrderKept ==
    LoadDone =>
        \A i \in 1..Len(activities) :
            /\ Len(activities[i].path) >= 1
            /\ \E k \in 1..Len(InputRecords) :
                  IsSubseq(activities[i].path, SourcePoints(InputSchema, InputRecords[k]))

\* C7 witness: load() returned with an activity whose path holds three points
\* of a primary path.
C7_Witness ==
    /\ pc = "loaded"
    /\ \E i \in 1..Len(activities) : Len(activities[i].path) >= 3

\* The name the spec gives a visit with the source semantic type sem and the
\* source name name (None for no name).
ExpectedName(sem, name) ==
    IF sem = TYPE_HOME \/ sem = Home THEN Home
    ELSE IF sem = TYPE_WORK \/ sem = Work THEN Work
    ELSE IF name = None THEN UnknownLocation
    ELSE name

\* C8: in every schema the Visit of a record is named 'Home' or 'Work' when the
\* source semantic type says so, else by the source name, else 'Unknown
\* Location'; a record with valid coordinates and no name is kept.
C8_VisitName ==
    (/\ LoadDone
     /\ Len(InputRecords) = 1
     /\ ValidVisitRecord(InputSchema, InputRecords[1]))
    => LET place == VisitPlace(InputSchema, InputRecords[1])
       IN  /\ Len(visits) = 1 =>
                  visits[1].name = ExpectedName(Field(place, "semanticType"),
                                                Field(place, "name"))
           /\ ~HasField(place, "name") => Len(visits) = 1

\* The geometry type the spec gives the feature of an activity.
ExpectedGeometry(activity) == IF Len(activity.path) >= 2 THEN "LineString" ELSE "Point"

\* C9: the GeoJSON of to_geojson() has len(visits) + len(activities) features;
\* the features of the visits and of the single-point activities are Points,
\* those of the activities with two points or more are LineStrings.
C9_FeatureCountAndGeometry ==
    geojson.t = "geojson" =>
        /\ Len(geojson.features) = Len(visits) + Len(activities)
        /\ \A i \in 1..Len(visits) : geojson.features[i].geometry.type = "Point"
        /\ \A j \in 1..Len(activities) :
              geojson.features[Len(visits) + j].geometry.type
                  = ExpectedGeometry(activities[j])

\* C9 witness: a GeoJSON of a model with a visit and a single-point activity,
\* the two kinds of entity whose feature is a Point.
C9_Witness ==
    /\ geojson.t = "geojson"
    /\ Len(visits) >= 1
    /\ \E j \in 1..Len(activities) : Len(activities[j].path) = 1

\* The placemarks of all subfolders with the given name, date folder by date
\* folder.
Placemarks(doc, name) ==
    LET Named(f) == f.name = name
        InFolder(d) == LET sub == SelectSeq(d.folders, Named)
                       IN  [i \in 1..Len(sub) |-> Len(sub[i].placemarks)]
    IN  [i \in 1..Len(doc.folders) |-> InFolder(doc.folders[i])]

RECURSIVE Sum(_)
Sum(q) == IF q = <<>> THEN 0 ELSE Head(q) + Sum(Tail(q))

\* The number of placemarks in the subfolders with the given name.
PlacemarkCount(doc, name) ==
    LET per == Placemarks(doc, name)
    IN  Sum([i \in 1..Len(per) |-> Sum(per[i])])

\* C10: a single-point Activity has a Point feature in the GeoJSON and no
\* placemark in the KML: the KML holds as many activity placemarks as there
\* are Activities with two points or more, and len(visits) visit placemarks.
C10_SinglePointNotInKml ==
    /\ geojson.t = "geojson" =>
          \A j \in 1..Len(activities) :
              Len(activities[j].path) = 1 =>
                  geojson.features[Len(visits) + j].geometry.type = "Point"
    /\ kml.t = "kml" =>
          /\ PlacemarkCount(kml, "Activities")
                 = Cardinality({j \in 1..Len(activities) : Len(activities[j].path) >= 2})
          /\ PlacemarkCount(kml, "Places Visited") = Len(visits)

\* C10 witness: both encodings of a model with a single-point activity and a
\* longer one.
C10_Witness ==
    /\ geojson.t = "geojson"
    /\ kml.t = "kml"
    /\ \E j \in 1..Len(activities) : Len(activities[j].path) = 1
    /\ \E j \in 1..Len(activities) : Len(activities[j].path) >= 2

\* The entities behind the placemarks of the subfolder sub of the date folder
\* d, in the order of the placemarks.
FolderEntities(d, sub) ==
    IF sub.name = "Places Visited" THEN OnDate(visits, d.name)
    ELSE Drawn(OnDate(activities, d.name))

\* C11: in the KML document a visit placemark and an activity placemark hold a
\* TimeSpan exactly when the start_time and the end_time of their entity are
\* both not null, an empty string included.
C11_TimeSpanIffNotNull ==
    kml.t = "kml" =>
        \A f \in 1..Len(kml.folders) :
            \A s \in 1..Len(kml.folders[f].folders) :
                LET sub == kml.folders[f].folders[s]
                    entities == FolderEntities(kml.folders[f], sub)
                IN  /\ Len(sub.placemarks) = Len(entities)
                    /\ \A i \in 1..Len(entities) :
                          (sub.placemarks[i].TimeSpan # None)
                              <=> (/\ entities[i].start_time # None
                                   /\ entities[i].end_time # None)

\* C12: encoding the same model twice gives equal output: another to_geojson()
\* and another to_kml() of the same run equal the ones already made, and the
\* to_kml() of any two runs on the same input are equal, Style order included.
C12_EncodingRepeatable ==
    pc = "loaded" =>
        /\ geojson.t = "geojson" => geojson = to_geojson(visits, activities)
        /\ kml.t = "kml" => kml = to_kml(visits, activities, hash_seed)
        /\ \A run1, run2 \in 1..HashSeeds :
              to_kml(visits, activities, run1) = to_kml(visits, activities, run2)

\* The coordinates of the visit records of the source, in record order.
SourceVisitPoints ==
    Pairs([k \in 1..Len(InputRecords) |->
              IF IsVisitRecord(InputSchema, InputRecords[k])
              THEN SourceVisitCoords(InputSchema, InputRecords[k])
              ELSE None])

\* C13: the features of the GeoJSON are the visits, in the order of their
\* source records, followed by the activities, in the order of their source
\* records; no visit feature follows an activity feature.
C13_VisitsThenActivities ==
    geojson.t = "geojson" =>
        LET f == geojson.features
            n == Len(visits)
        IN  /\ Len(f) = n + Len(activities)
            /\ visits = EntitiesOf(InputSchema, InputRecords, "v")
            /\ activities = EntitiesOf(InputSchema, InputRecords, "a")
            /\ \A i \in 1..n :
                  /\ f[i].properties.type = "visit"
                  /\ f[i].properties.name = visits[i].name
                  /\ f[i].geometry.coordinates = <<visits[i].lng, visits[i].lat>>
            /\ \A j \in 1..Len(activities) :
                  /\ f[n + j].properties.type = "activity"
                  /\ f[n + j].properties.activity_type = activities[j].type
                  /\ f[n + j].properties.distance_meters = activities[j].distance
            /\ IsSubseq([i \in 1..n |-> PyTuple(f[i].geometry.coordinates[2],
                                                f[i].geometry.coordinates[1])],
                        SourceVisitPoints)
            /\ \A i, j \in 1..Len(f) :
                  (f[i].properties.type = "activity" /\ f[j].properties.type = "visit")
                      => j < i

\* C13 witness: a GeoJSON whose source holds an activity record before a visit
\* record, both kept.
C13_Witness ==
    /\ geojson.t = "geojson"
    /\ Len(InputRecords) = 2
    /\ IsActivityRecord(InputSchema, InputRecords[1])
    /\ IsVisitRecord(InputSchema, InputRecords[2])
    /\ Len(visits) = 1 /\ Len(activities) = 1

\* The run ended on a fatal error: no input file, invalid JSON, unrecognized
\* format, or an exception raised while parsing or encoding.
FatalError ==
    \/ step = "exit1" /\ (input_file.t = "missing" \/ pc = "failed")
    \/ step \in {"crash_parse", "crash_encode"}

\* C14: a run that hits a fatal error ends with none of the three output
\* files written, and no output file is written unless load() has completed
\* successfully.
C14_FatalErrorNoOutput ==
    /\ FatalError => files = NoFiles
    /\ files # NoFiles => pc = "loaded"

\* C15: the archive save_kmz() writes holds exactly one entry, named doc.kml,
\* compressed with deflate, whose content is the KML document save_kml() wrote
\* in the same run.
C15_KmzHoldsTheKml ==
    files.kmz.t = "zip" =>
        /\ Len(files.kmz.entries) = 1
        /\ files.kmz.entries[1].name = "doc.kml"
        /\ files.kmz.entries[1].compress_type = "ZIP_DEFLATED"
        /\ files.kml.t = "file"
        /\ files.kmz.entries[1].data = files.kml.text

\* C15 witness: a run that wrote the archive of a model with two activity
\* types, whose Style order depends on the string hashing.
C15_Witness ==
    /\ step = "done"
    /\ files.kmz.t = "zip"
    /\ \E i, j \in 1..Len(activities) : activities[i].type # activities[j].type

\* A str that is a token of neither table, in any letter case.
UnknownToken(type) ==
    /\ type.t = "str"
    /\ ~HasKey(colors, Upper(type.s))
    /\ ~HasKey(mappings, Upper(type.s))

\* C16: for every activity type the parsers store (a known token in any letter
\* case, an unknown token, an empty string, a null or non-string value) the
\* color lookup and the label lookup return a value without raising; an unknown
\* token gives #9E9E9E and the raw token with underscores replaced by spaces,
\* title-cased.
C16_LookupsTotal ==
    LoadDone =>
        \A j \in 1..Len(activities) :
            /\ get_activity_color(activities[j].type).t = "str"
            /\ format_activity_type(activities[j].type).t = "str"
            /\ UnknownToken(activities[j].type) =>
                  /\ get_activity_color(activities[j].type)
                         = PyStr(<<"#", "9", "E", "9", "E", "9", "E">>)
                  /\ format_activity_type(activities[j].type)
                         = PyStr(Title(ReplaceUnderscores(activities[j].type.s)))

\* The standard record of the example: an activitySegment of type WALKING
\* whose waypointPath holds two latE7/lngE7 waypoints.
IsWalkingExample(r) ==
    LET seg == Field(r, "activitySegment")
        w   == Field(Field(seg, "waypointPath"), "waypoints")
    IN  /\ Field(seg, "activityType") = WALKING
        /\ w.t = "arr" /\ Len(w.a) = 2
        /\ \A i \in 1..2 : HasField(w.a[i], "latE7") /\ HasField(w.a[i], "lngE7")

\* C17: the GeoJSON feature of every Activity carries activity_type equal to
\* the raw type, name equal to the label lookup of the type, stroke equal to
\* the color lookup of the upper-cased type, stroke-width 4 and stroke-opacity
\* 0.8; a standard activitySegment of type WALKING with two latE7/lngE7
\* waypoints gives a LineString with stroke #DB4437 and name Walking.
C17_ActivityProperties ==
    geojson.t = "geojson" =>
        /\ \A j \in 1..Len(activities) :
              LET p == geojson.features[Len(visits) + j].properties
              IN  /\ p.type = "activity"
                  /\ p.activity_type = activities[j].type
                  /\ p.name = format_activity_type(activities[j].type)
                  /\ p.stroke = get_activity_color(PyStr(Upper(activities[j].type.s)))
                  /\ p.stroke_width = 4
                  /\ p.stroke_opacity = PyFloat(8, 1)
        /\ (/\ InputSchema = "standard"
            /\ Len(InputRecords) = 1
            /\ IsWalkingExample(InputRecords[1]))
           => /\ Len(geojson.features) = 1
              /\ geojson.features[1].geometry.type = "LineString"
              /\ Len(geojson.features[1].geometry.coordinates) = 2
              /\ geojson.features[1].properties.stroke
                     = PyStr(<<"#", "D", "B", "4", "4", "3", "7">>)
              /\ geojson.features[1].properties.name
                     = PyStr(<<"W", "a", "l", "k", "i", "n", "g">>)

\* C17 witness: the GeoJSON of the WALKING example.
C17_Witness ==
    /\ geojson.t = "geojson"
    /\ InputSchema = "standard"
    /\ Len(InputRecords) = 1
    /\ IsWalkingExample(InputRecords[1])
    /\ Len(activities) = 1

RECURSIVE Lines(_)
\* The lines of a text.
Lines(text) ==
    IF \E i \in 1..Len(text) : text[i] = "\n"
    THEN LET i == CHOOSE k \in 1..Len(text) :
                      text[k] = "\n" /\ \A j \in 1..(k - 1) : text[j] # "\n"
         IN  <<SubSeq(text, 1, i - 1)>> \o Lines(SubSeq(text, i + 1, Len(text)))
    ELSE <<text>>

\* The points of an entity, in order: the position of a visit, the path of an
\* activity.
PointsOf(entity) ==
    IF "path" \in DOMAIN entity THEN entity.path
    ELSE <<PyTuple(entity.lat, entity.lng)>>

\* The KML coordinates text holds one line 'lng,lat,0' per point, in order.
LngLatLines(text, points) ==
    /\ Len(Lines(text)) = Len(points)
    /\ \A i \in 1..Len(points) :
          Split(Lines(text)[i]) = <<Str(points[i].lng), Str(points[i].lat), <<"0">>>>

\* C18: both encoders emit the longitude before the latitude and keep the path
\* order: the GeoJSON coordinates of a visit are [lng, lat] and those of an
\* activity with two points or more are [[lng1, lat1], ..., [lngn, latn]]; the
\* KML coordinates hold 'lng,lat,0' for a visit and one 'lng_i,lat_i,0' per
\* path point, in the order of the path, for an activity.
C18_LongitudeFirst ==
    /\ geojson.t = "geojson" =>
          /\ \A i \in 1..Len(visits) :
                geojson.features[i].geometry.coordinates = <<visits[i].lng, visits[i].lat>>
          /\ \A j \in 1..Len(activities) :
                Len(activities[j].path) >= 2 =>
                    geojson.features[Len(visits) + j].geometry.coordinates
                        = [k \in 1..Len(activities[j].path) |->
                              <<activities[j].path[k].lng, activities[j].path[k].lat>>]
    /\ kml.t = "kml" =>
          \A f \in 1..Len(kml.folders) :
              \A s \in 1..Len(kml.folders[f].folders) :
                  \A i \in 1..Len(kml.folders[f].folders[s].placemarks) :
                      LET sub    == kml.folders[f].folders[s]
                          entity == FolderEntities(kml.folders[f], sub)[i]
                      IN  /\ LngLatLines(sub.placemarks[i].geometry.coordinates,
                                         PointsOf(entity))
                          /\ PointsOf(entity) = <<PyTuple(PyFloat(10, 1), PyFloat(20, 1))>>
                             => sub.placemarks[i].geometry.coordinates
                                    = <<"2", ".", "0", ",", "1", ".", "0", ",", "0">>

\* C18 witness: both encodings of a model with a visit and an activity whose
\* path holds three points.
C18_Witness ==
    /\ geojson.t = "geojson"
    /\ kml.t = "kml"
    /\ Len(visits) >= 1
    /\ \E j \in 1..Len(activities) : Len(activities[j].path) >= 3

\* The points recovered from the primary path source of an activity record
\* (the ios schema has none).
PrimaryPoints(fmt, r) ==
    CASE fmt = "ios"      -> <<>>
      [] fmt = "standard" ->
             LET l == StdSourceList(Field(r, "activitySegment"))
             IN  Pairs([i \in 1..Len(l) |-> StdSourcePoint(l[i])])
      [] fmt = "semantic" ->
             LET l == SemSourceList(r)
             IN  Pairs([i \in 1..Len(l) |-> DegPair(Field(l[i], "point"))])

\* The start and the end coordinates an activity record holds, start first.
StartEndPoints(fmt, r) ==
    CASE fmt = "ios" ->
             Pairs(<<parse_geo_string(Field(Field(r, "activity"), "start")),
                     parse_geo_string(Field(Field(r, "activity"), "end"))>>)
      [] fmt = "standard" ->
             Pairs(<<E7Pair(Field(Field(r, "activitySegment"), "startLocation")),
                     E7Pair(Field(Field(r, "activitySegment"), "endLocation"))>>)
      [] fmt = "semantic" ->
             Pairs(<<DegPair(Field(Field(Field(r, "activity"), "start"), "latLng")),
                     DegPair(Field(Field(Field(r, "activity"), "end"), "latLng"))>>)

\* C19: in every schema, for an activity record with fewer than 2 primary path
\* points: when its start or its end is present the path of the Activity is
\* exactly the present start and end, start first, with no primary point; when
\* neither is present the Activity keeps the primary point if there is one,
\* and no Activity is created when there is no point at all.
C19_FallbackPath ==
    (/\ LoadDone
     /\ Len(InputRecords) = 1
     /\ IsActivityRecord(InputSchema, InputRecords[1])
     /\ Len(PrimaryPoints(InputSchema, InputRecords[1])) < 2)
    => IF StartEndPoints(InputSchema, InputRecords[1]) # <<>>
       THEN /\ Len(activities) = 1
            /\ activities[1].path = StartEndPoints(InputSchema, InputRecords[1])
       ELSE IF PrimaryPoints(InputSchema, InputRecords[1]) # <<>>
       THEN /\ Len(activities) = 1
            /\ activities[1].path = PrimaryPoints(InputSchema, InputRecords[1])
       ELSE activities = <<>>

\* A path point read as the spec says: latE7/lngE7 divided by 1e7, or plain
\* lat/lng.
ReadPoint(pt) ==
    PyTuple(IF HasField(pt, "latE7") THEN Div1e7(Field(pt, "latE7")) ELSE Field(pt, "lat"),
            IF HasField(pt, "lngE7") THEN Div1e7(Field(pt, "lngE7")) ELSE Field(pt, "lng"))

\* The list under key of the object under holder, <<>> when it is absent.
ListAt(seg, holder, key) ==
    IF Field(Field(seg, holder), key).t = "arr" THEN Field(Field(seg, holder), key).a
    ELSE <<>>

\* The one list the primary path is read from: the first non-empty one of
\* waypointPath.waypoints, simplifiedRawPath.points and timelinePath.points.
ChosenList(seg) ==
    IF ListAt(seg, "waypointPath", "waypoints") # <<>>
    THEN ListAt(seg, "waypointPath", "waypoints")
    ELSE IF ListAt(seg, "simplifiedRawPath", "points") # <<>>
    THEN ListAt(seg, "simplifiedRawPath", "points")
    ELSE ListAt(seg, "timelinePath", "points")

\* The points read from a list, those with a zero or missing coordinate left
\* out as the parser leaves them out.
ReadPoints(list) ==
    LET Kept(c) == Truthy(c.lat) /\ Truthy(c.lng)
    IN  SelectSeq([i \in 1..Len(list) |-> ReadPoint(list[i])], Kept)

\* C20: in the standard schema the primary path points of an activity are read
\* from exactly one list, the first present and non-empty one of
\* waypointPath.waypoints, simplifiedRawPath.points and timelinePath.points,
\* each point as latE7/lngE7 divided by 1e7 or as plain lat/lng: when that list
\* gives two points or more, they are the path of the Activity, in order.
C20_OnePrimaryList ==
    (/\ LoadDone
     /\ InputSchema = "standard"
     /\ Len(InputRecords) = 1
     /\ IsActivityRecord("standard", InputRecords[1])
     /\ Len(ReadPoints(ChosenList(Field(InputRecords[1], "activitySegment")))) >= 2)
    => /\ Len(activities) = 1
       /\ activities[1].path
              = ReadPoints(ChosenList(Field(InputRecords[1], "activitySegment")))

\* C20 witness: an activity loaded from a segment whose waypointPath is empty
\* while its two other lists hold points.
C20_Witness ==
    /\ pc = "loaded"
    /\ InputSchema = "standard"
    /\ Len(InputRecords) = 1
    /\ Len(activities) = 1
    /\ HasField(Field(InputRecords[1], "activitySegment"), "waypointPath")
    /\ ListAt(Field(InputRecords[1], "activitySegment"), "waypointPath", "waypoints") = <<>>
    /\ ListAt(Field(InputRecords[1], "activitySegment"), "simplifiedRawPath", "points") # <<>>
    /\ ListAt(Field(InputRecords[1], "activitySegment"), "timelinePath", "points") # <<>>

\* The type the spec gives a standard segment: activityType when present and
\* non-empty, else the activityType of the first entry of activities when that
\* entry has one, else 'UNKNOWN'.
ExpectedType(seg) ==
    LET own   == Field(seg, "activityType")
        list  == Field(seg, "activities")
        first == IF list.t = "arr" /\ list.a # <<>>
                 THEN Field(list.a[1], "activityType") ELSE None
    IN  IF own # None /\ own # EmptyStr THEN own
        ELSE IF first # None /\ first # EmptyStr THEN first
        ELSE PyStr(<<"U", "N", "K", "N", "O", "W", "N">>)

\* C21: in the standard schema the type of the Activity of a segment is its
\* activityType when present and non-empty, else the activityType of the first
\* entry of its activities list, else 'UNKNOWN'; it is never null or empty.
C21_StandardActivityType ==
    (/\ pc = "loaded"
     /\ InputSchema = "standard"
     /\ \A k \in 1..Len(InputRecords) : IsActivityRecord("standard", InputRecords[k])
     /\ Len(activities) = Len(InputRecords))
    => \A k \in 1..Len(activities) :
          /\ activities[k].type = ExpectedType(Field(InputRecords[k], "activitySegment"))
          /\ activities[k].type # None
          /\ activities[k].type # EmptyStr

\* C21 witness: an Activity whose segment has an empty activityType and a list
\* of two activities took the type of the first entry.
C21_Witness ==
    /\ pc = "loaded"
    /\ InputSchema = "standard"
    /\ Len(InputRecords) = 1 /\ Len(activities) = 1
    /\ Field(Field(InputRecords[1], "activitySegment"), "activityType") = EmptyStr
    /\ Len(Field(Field(InputRecords[1], "activitySegment"), "activities").a) = 2
    /\ activities[1].type = Cycling

\* The placemarks of the subfolders named sub of a date folder.
SubPlacemarks(folder, sub) ==
    LET Named(f) == f.name = sub
        named == SelectSeq(folder.folders, Named)
    IN  IF named = <<>> THEN <<>> ELSE named[1].placemarks

\* The number of subfolders named sub in a date folder.
SubCount(folder, sub) == Cardinality({s \in 1..Len(folder.folders) : folder.folders[s].name = sub})

\* The derived dates of all visits and activities of the model.
ModelDates ==
    {DateOf(visits[i]) : i \in 1..Len(visits)}
        \cup {DateOf(activities[j]) : j \in 1..Len(activities)}

C23_NoEmptySubfolder ==
    kml.t = "kml" =>
        \A f \in 1..Len(kml.folders) :
            LET d == kml.folders[f]
            IN  /\ \A s \in 1..Len(d.folders) : Len(d.folders[s].placemarks) >= 1
                /\ (SubCount(d, "Places Visited") = 1)
                       <=> (\E i \in 1..Len(visits) : DateOf(visits[i]) = d.name)
                /\ (SubCount(d, "Activities") = 1)
                       <=> (\E j \in 1..Len(activities) :
                                /\ DateOf(activities[j]) = d.name
                                /\ Len(activities[j].path) >= 2)

\* The raw activity types present in the model.
ModelTypes == {activities[j].type : j \in 1..Len(activities)}

\* 'cc' and the blue, green and red byte pairs of the hex color '#RRGGBB'.
OpaqueBGR(hex) == <<"c", "c", hex[6], hex[7], hex[4], hex[5], hex[2], hex[3]>>

\* C24: the KML document holds exactly one line Style per distinct raw
\* activity type of the model, its id the raw type, its color 'cc' followed by
\* the blue, green and red byte pairs of the color of the type and its width
\* 4, and one shared visit style; the styleUrl of every activity placemark is
\* '#' and the id of one of these Styles, that of its own type, and the
\* styleUrl of every visit placemark is '#visitStyle'.
C24_OneStylePerType ==
    kml.t = "kml" =>
        /\ Len(kml.styles) = Cardinality(ModelTypes)
        /\ {kml.styles[i].id : i \in 1..Len(kml.styles)} = ModelTypes
        /\ \A i \in 1..Len(kml.styles) :
              /\ kml.styles[i].LineStyle.color
                     = PyStr(OpaqueBGR(get_activity_color(kml.styles[i].id).s))
              /\ kml.styles[i].LineStyle.width = "4"
        /\ kml.visit_style.id = "visitStyle"
        /\ \A f \in 1..Len(kml.folders) :
              LET d == kml.folders[f]
                  vp == SubPlacemarks(d, "Places Visited")
                  ap == SubPlacemarks(d, "Activities")
                  drawn == Drawn(OnDate(activities, d.name))
              IN  /\ \A i \in 1..Len(vp) :
                        vp[i].styleUrl.s = <<"#", "v", "i", "s", "i", "t", "S", "t", "y", "l", "e">>
                  /\ Len(ap) = Len(drawn)
                  /\ \A j \in 1..Len(ap) :
                        /\ ap[j].styleUrl.s = <<"#">> \o drawn[j].type.s
                        /\ \E i \in 1..Len(kml.styles) :
                              ap[j].styleUrl.s = <<"#">> \o kml.styles[i].id.s

\* C24 witness: the KML of two activities of different types, one of them
\* with a color of the table whose red and blue bytes differ (#DB4437).
C24_Witness ==
    /\ kml.t = "kml"
    /\ Len(kml.styles) = 2
    /\ PlacemarkCount(kml, "Activities") >= 1
    /\ \E i \in 1..2 : kml.styles[i].LineStyle.color = PyStr(<<"c", "c", "3", "7", "4", "4", "D", "B">>)

\* The name of the day of the week of the calendar date <<y, m, d>>, by the
\* month offsets of the Gregorian calendar (0 is Sunday).
DayName(date) ==
    LET offsets == <<0, 3, 2, 5, 0, 3, 5, 1, 4, 6, 2, 4>>
        y == IF date[2] < 3 THEN date[1] - 1 ELSE date[1]
        n == (y + y \div 4 - y \div 100 + y \div 400 + offsets[date[2]] + date[3]) % 7
    IN  WeekdayNames[((n + 6) % 7) + 1]

\* The text is year-month-day of the calendar date: digits, a dash, two
\* digits, a dash, two digits, with the values of the date.
IsDateTextOf(text, date) ==
    \E n \in 1..(Len(text) - 6) :
        /\ Len(text) = n + 6
        /\ AllDigits(SubSeq(text, 1, n)) /\ DigitsVal(SubSeq(text, 1, n)) = date[1]
        /\ text[n + 1] = "-"
        /\ AllDigits(SubSeq(text, n + 2, n + 3)) /\ DigitsVal(SubSeq(text, n + 2, n + 3)) = date[2]
        /\ text[n + 4] = "-"
        /\ AllDigits(SubSeq(text, n + 5, n + 6)) /\ DigitsVal(SubSeq(text, n + 5, n + 6)) = date[3]

\* int() of the characters a + 1 .. b of a string, None when they are no integer.
IntOfChars(s, a, b) ==
    NoneIfRaised(ToInt(PyStr(SubSeq(s, a + 1, IF b < Len(s) THEN b ELSE Len(s)))))

\* The five derived fields p of the timestamp ts are as C25 says.
DerivedAsClaimed(ts, p) ==
    IF ts = None \/ ts = EmptyStr
    THEN p.date = None /\ p.year = None /\ p.month = None /\ p.day = None /\ p.weekday = None
    ELSE LET parsed == FromIsoFormat(ReplaceZ(ts.s))
         IN  IF parsed # <<>>
             THEN /\ p.year = PyInt(parsed[1])
                  /\ p.month = PyInt(parsed[2])
                  /\ p.day = PyInt(parsed[3])
                  /\ p.date.t = "str" /\ IsDateTextOf(p.date.s, parsed)
                  /\ p.weekday.t = "str" /\ p.weekday.s = DayName(parsed)
             ELSE /\ p.date = (IF Len(ts.s) >= 10 THEN PyStr(SubSeq(ts.s, 1, 10)) ELSE None)
                  /\ p.year = IntOfChars(ts.s, 0, 4)
                  /\ p.month = IntOfChars(ts.s, 5, 7)
                  /\ p.day = IntOfChars(ts.s, 8, 10)
                  /\ p.weekday = None

\* C25: the date, year, month, day and weekday of every feature are derived
\* from its start_time: from the parsed value when it parses as ISO-8601 (Z
\* read as +00:00), all five agreeing on one calendar day; otherwise the date
\* is the first 10 characters of the string (absent below 10 characters),
\* year, month and day are the integers of the slices [0:4], [5:7], [8:10],
\* each absent when its slice is no integer, and the weekday is absent; a null
\* or empty timestamp gives all five absent. '2024-01-15T08:00:00Z' gives
\* '2024-01-15' and 'Monday'.
C25_DerivedFields ==
    geojson.t = "geojson" =>
        \A i \in 1..Len(geojson.features) :
            LET p == geojson.features[i].properties
            IN  /\ DerivedAsClaimed(p.start_time, p)
                /\ p.start_time = Ts1 =>
                      /\ p.date = PyStr(<<"2", "0", "2", "4", "-", "0", "1", "-", "1", "5">>)
                      /\ p.weekday = PyStr(<<"M", "o", "n", "d", "a", "y">>)

\* C25 witness: the features of a timestamp that parses and of one that does
\* not and whose slices give a day but no year.
C25_Witness ==
    /\ geojson.t = "geojson"
    /\ Len(geojson.features) = 2
    /\ geojson.features[1].properties.start_time = TsOffset
    /\ geojson.features[2].properties.start_time = TsWords
    /\ geojson.features[2].properties.year = None
    /\ geojson.features[2].properties.day # None

\* C26: once load() has returned, every step (to_geojson(), to_kml(),
\* save_geojson(), save_kml(), save_kmz(), in any order and any number of times,
\* returning or raising) leaves visits and activities as they are: length,
\* order, every field and every path.
C26_ModelNeverMutated ==
    [][pc = "loaded" => (visits' = visits /\ activities' = activities)]_vars

\* C26 witness: a model with a visit and an activity after both encoders ran
\* and all three files were written.
C26_Witness ==
    /\ pc = "loaded"
    /\ Len(visits) >= 1 /\ Len(activities) >= 1
    /\ geojson.t = "geojson" /\ kml.t = "kml"
    /\ files.geojson.t = "file" /\ files.kml.t = "file" /\ files.kmz.t = "zip"

\* The run ended on an exception of a save.
SaveFailed == step \in {"crash_encode", "crash_io"}

\* The output the run is about to produce is complete in files.
Produced(at, fs) ==
    CASE at = "geojson" -> fs.geojson.t = "file"
      [] at = "kml"     -> fs.kml.t = "file"
      [] at = "kmz"     -> fs.kmz.t = "zip"
      [] OTHER          -> TRUE

\* C27: a run produces its outputs in the order GeoJSON, KML, KMZ: the KML
\* file is touched only after the GeoJSON file is complete and the KMZ file
\* only after the KML file is complete. When producing an output fails the run
\* ends in failure there, the outputs after it are not written, and a complete
\* output is never changed or removed by the rest of the run.
C27_FixedOrderNoRollback ==
    /\ [](/\ files.kml # None => files.geojson.t = "file"
          /\ files.kmz # None => files.geojson.t = "file" /\ files.kml.t = "file"
          /\ step = "done" =>
                files.geojson.t = "file" /\ files.kml.t = "file" /\ files.kmz.t = "zip")
    /\ [][/\ step \in {"geojson", "kml", "kmz"} /\ ~Produced(step, files') =>
                step' \in {"crash_encode", "crash_io"}
          /\ files.geojson.t = "file" => files'.geojson = files.geojson
          /\ files.kml.t = "file" => files'.kml = files.kml
          /\ SaveFailed => files' = files]_vars

\* C27 witness: a run that wrote the GeoJSON file and failed on the KML.
C27_Witness ==
    /\ SaveFailed
    /\ files.geojson.t = "file"
    /\ files.kml \in {None, Truncated}
    /\ files.kmz = None

\* The output files that are open.
OpenFiles == {out \in Outputs : files[out] = Opened}

\* The run is over: main() returned, exited or was left by an exception.
RunEnded == step \in {"done", "exit1", "crash_parse", "crash_encode", "crash_io"}

RecordsWith(recs, k, lacks) ==
    {i \in 1..Len(recs) : HasField(recs[i], k) /\ ~HasField(recs[i], lacks)}

\* C29: after load() of an input of a schema, the visits come from records
\* with the visit key whose coordinates can be recovered and the activities
\* from records with the activity key and without the visit key, so that
\* there are at most as many entities as records; a record with both keys
\* gives no activity, and nothing at all when its visit coordinates are
\* unrecoverable.
C29_OneEntityPerRecord ==
    (pc = "loaded" /\ InputSchema # "none") =>
        LET fmt  == InputSchema
            recs == InputRecords
        IN  /\ Len(visits) + Len(activities) <= Len(recs)
            /\ Len(visits) <= Cardinality({i \in RecordsWith(recs, VisitKey(fmt), "") :
                                              SourceVisitCoords(fmt, recs[i]).t = "tup"})
            /\ Len(activities)
                   <= Cardinality(RecordsWith(recs, ActivityKey(fmt), VisitKey(fmt)))
            /\ (\A i \in 1..Len(recs) :
                    /\ HasField(recs[i], VisitKey(fmt))
                    /\ HasField(recs[i], ActivityKey(fmt))
                    /\ SourceVisitCoords(fmt, recs[i]) = None)
                   => visits = <<>> /\ activities = <<>>

\* C29 witness: two records with both keys and valid activity data, the
\* first with visit coordinates and the second without, give one visit and
\* no activity.
C29_Witness ==
    /\ pc = "loaded"
    /\ InputSchema = "standard"
    /\ Len(InputRecords) = 2
    /\ \A i \in 1..2 :
          /\ HasField(InputRecords[i], "placeVisit")
          /\ HasField(InputRecords[i], "activitySegment")
          /\ ValidTwoPointActivity("standard",
                 PyDict([activitySegment |-> InputRecords[i].o.activitySegment]))
    /\ SourceVisitCoords("standard", InputRecords[2]) = None
    /\ Len(visits) = 1
    /\ activities = <<>>

\* The model load() built holds no entity.
EmptyModel == pc = "loaded" /\ visits = <<>> /\ activities = <<>>

\* C30: when load() succeeded and the model holds no visit and no activity,
\* main() goes from the call of load() to exit status 1 and nowhere else, and
\* none of the three output files is written; an output file exists only
\* when the model holds at least one entity.
C30_EmptyModelNoOutput ==
    /\ EmptyModel => step \in {"load", "exit1"} /\ files = NoFiles
    /\ files # NoFiles => pc = "loaded" /\ Len(visits) + Len(activities) >= 1

\* C30 witness: a run that ended with exit status 1 on a list whose records
\* were all dropped.
C30_Witness ==
    /\ step = "exit1"
    /\ EmptyModel
    /\ InputSchema = "ios"
    /\ Len(InputRecords) >= 1

====
